---- MODULE Spec2Model ----
(***************************************************************************)
(* Portfolio ledger of PortfoliAI.                                         *)
(*                                                                         *)
(* Two ledgers exist in the repository and both are modelled:              *)
(*  - the Supabase ledger driven by the HTTP handlers of server.py         *)
(*    (deposit_cash, add_position, sell_position, add_withdrawal,          *)
(*    get_portfolio_summary): tables portfolios, positions, withdrawals,   *)
(*    trade_history;                                                       *)
(*  - the JSON-file ledger of portfolio_manager.py (PortfolioManager).     *)
(*                                                                         *)
(* A handler talks to the store through separate statements (every         *)
(* .execute() is one round trip).  The store applies one statement at a     *)
(* time; nothing in the handlers groups statements into a transaction or   *)
(* takes a lock, so the statements of requests served by different workers *)
(* of the server interleave freely.  Numbers are exact rationals where the *)
(* code divides (Python floats without their rounding).                    *)
(***************************************************************************)
EXTENDS Integers, Sequences, FiniteSets, TLC

\* ---------------------------------------------------------------- bounds
MaxReqs == 2        \* requests issued in one behaviour
MaxQty == 2         \* largest quantity submitted
MaxPrice == 2       \* largest price submitted
MaxAmount == 2      \* largest deposit / withdrawal amount submitted
StartCash == 3      \* cash of the portfolio at the start
MaxInst == 2        \* PortfolioManager objects alive at once
MaxOps == 2         \* PortfolioManager methods called in one behaviour
MaxNow == 36        \* the clock runs from hour 0 to this hour
TickHours == 12     \* hours the clock advances in one step
MaxThreads == 2     \* threads using the caches at once
MaxCacheOps == 3    \* cache operations started in one behaviour
MaxClock == 30      \* time.time() runs from minute 0 to this minute
TickMinutes == 15   \* minutes time.time() advances in one step
MaxHoldings == 10   \* most position rows of a scored portfolio
MaxYears == 2       \* most years of a simulation
MaxSims == 2        \* most trials of a Monte Carlo simulation
RngPeriod == 5      \* number of states of the generator of module random

Symbols == {"AAPL", "SCOM"}
Quantities == -1 .. MaxQty
Prices == 0 .. MaxPrice
Amounts == -1 .. MaxAmount

\* ------------------------------------------------------- exact arithmetic
Abs(x) == IF x < 0 THEN -x ELSE x

RECURSIVE GCD(_, _)
GCD(a, b) == IF b = 0 THEN a ELSE GCD(b, a % b)

\* n / d for d # 0, in lowest terms with a positive denominator
Rat(n, d) ==
    LET g == GCD(Abs(n), Abs(d))
        s == IF d < 0 THEN -1 ELSE 1
    IN  [n |-> (s * n) \div g, d |-> (s * d) \div g]

\* round(x) and format(x, ',.0f'): the whole number nearest to x, the even
\* one of two
Round0(x) ==
    LET q == x.n \div x.d
        r == x.n % x.d
    IN  IF 2 * r < x.d THEN q
        ELSE IF 2 * r > x.d THEN q + 1
        ELSE IF q % 2 = 0 THEN q ELSE q + 1

\* round(x, 1)
Round1(x) == Rat(Round0([n |-> x.n * 10, d |-> x.d]), 10)

RInt(k) == [n |-> k, d |-> 1]
\* sums and comparisons are taken over the least common denominator
RAdd(x, y) ==
    LET g == GCD(x.d, y.d)
    IN  Rat(x.n * (y.d \div g) + y.n * (x.d \div g), (x.d \div g) * y.d)
RSub(x, y) ==
    LET g == GCD(x.d, y.d)
    IN  Rat(x.n * (y.d \div g) - y.n * (x.d \div g), (x.d \div g) * y.d)
RMul(x, y) == Rat(x.n * y.n, x.d * y.d)
RDiv(x, y) == Rat(x.n * y.d, x.d * y.n)
RLt(x, y) ==
    LET g == GCD(x.d, y.d)
    IN  x.n * (y.d \div g) < y.n * (x.d \div g)
RLe(x, y) ==
    LET g == GCD(x.d, y.d)
    IN  x.n * (y.d \div g) <= y.n * (x.d \div g)
RAbs(x) == [n |-> Abs(x.n), d |-> x.d]
RMin(x, y) == IF RLt(y, x) THEN y ELSE x
RMax(x, y) == IF RLt(x, y) THEN y ELSE x

\* the sum of the values of a function whose values are fractions
RECURSIVE RSumOver(_, _)
RSumOver(f, S) ==
    IF S = {} THEN RInt(0)
    ELSE LET x == CHOOSE y \in S : TRUE IN RAdd(f[x], RSumOver(f, S \ {x}))

RECURSIVE SumSeq(_)
SumSeq(s) == IF s = << >> THEN 0 ELSE Head(s) + SumSeq(Tail(s))

\* ------------------------------------------------------------------ state
VARIABLES
    cash_balance,    \* portfolios.cash_balance of the user's portfolio row
    positions,       \* rows of table positions (one row per insert)
    withdrawals,     \* rows of table withdrawals (the amounts)
    trade_history,   \* rows of table trade_history
    next_id,         \* id the store gives the next inserted position row
    n_calls,         \* number of requests received so far
    reqs,            \* the requests being served, by number, each with its locals
    db,              \* users_db.json: the portfolio stored for each user
    pm,              \* the PortfolioManager objects, each with its locals
    n_ops,           \* number of PortfolioManager methods called so far
    now,             \* datetime.now(), in hours
    cache,           \* MarketDataFetcher.cache: key -> value
    cache_expiry,    \* MarketDataFetcher.cache_expiry: key -> expiry
    news_cache,      \* ConversationalChatbot._news_cache: key -> entry
    thr,             \* the threads using the caches, each with its locals
    clock,           \* time.time() / datetime.now() of the caches, in minutes
    n_cache_ops,     \* number of cache operations started so far
    fn,              \* the last call of a computation: its arguments and what it gave
    rng              \* the generator of module random, shared by the process

vars == <<cash_balance, positions, withdrawals, trade_history, next_id, n_calls, reqs,
          db, pm, n_ops, now, cache, cache_expiry, news_cache, thr, clock, n_cache_ops,
          fn, rng>>
\* the computations and the generator they draw from
calc_vars == <<fn, rng>>
\* the caches and their users
cache_vars == <<cache, cache_expiry, news_cache, thr, clock, n_cache_ops>>
\* what neither the handlers nor the PortfolioManager methods change
other_vars == <<now, cache_vars, calc_vars>>
\* what the PortfolioManager methods leave alone
server_vars == <<cash_balance, positions, withdrawals, trade_history, next_id, n_calls, reqs,
                 other_vars>>
\* what the handlers leave alone
pm_vars == <<db, pm, n_ops, other_vars>>
\* the two ledgers
ledger_vars == <<cash_balance, positions, withdrawals, trade_history, next_id, n_calls, reqs,
                 db, pm, n_ops>>

NoRow ==
    [id |-> 0, symbol |-> "", entries |-> << >>, total_quantity |-> 0,
     average_cost |-> RInt(0), total_invested |-> RInt(0), current_price |-> 0]

\* e['quantity'] for e in entries / e['quantity'] * e['price'] for e in entries
EntryQuantities(entries) == [k \in 1 .. Len(entries) |-> entries[k].quantity]
EntryCosts(entries) == [k \in 1 .. Len(entries) |-> entries[k].quantity * entries[k].price]

\* the row add_position inserts for a symbol that has none
NewPositionRow(id, symbol, quantity, purchase_price) ==
    [id |-> id, symbol |-> symbol,
     entries |-> << [quantity |-> quantity, price |-> purchase_price] >>,
     total_quantity |-> quantity,
     average_cost |-> RInt(purchase_price),
     total_invested |-> RInt(quantity * purchase_price),
     current_price |-> purchase_price]

\* the update add_position makes to the row it read: the aggregates are
\* recomputed from the entries
AddEntryToRow(pos, quantity, purchase_price) ==
    LET current_entries == Append(pos.entries, [quantity |-> quantity, price |-> purchase_price])
        total_quantity == SumSeq(EntryQuantities(current_entries))
        total_invested == SumSeq(EntryCosts(current_entries))
    IN  [entries |-> current_entries,
         total_quantity |-> total_quantity,
         average_cost |-> IF total_quantity > 0 THEN Rat(total_invested, total_quantity) ELSE RInt(0),
         total_invested |-> RInt(total_invested)]

\* select("*").eq("symbol", symbol) on the given rows: data[0], if any
SelectFrom(rows, symbol) ==
    LET hit == {k \in 1 .. Len(rows) : rows[k].symbol = symbol}
    IN  IF hit = {} THEN NoRow
        ELSE rows[CHOOSE k \in hit : \A j \in hit : k <= j]

\* supabase.table("positions").select("*").eq("symbol", symbol): data[0]
SelectPosition(symbol) == SelectFrom(positions, symbol)

\* .update(fields).eq("id", id): changes the row with that id, if any
UpdateRows(id, fields) ==
    [k \in 1 .. Len(positions) |->
        IF positions[k].id = id
        THEN [f \in DOMAIN positions[k] |->
                 IF f \in DOMAIN fields THEN fields[f] ELSE positions[k][f]]
        ELSE positions[k]]

\* .delete().eq("id", id)
DeleteRows(id) == SelectSeq(positions, LAMBDA row : row.id # id)

\* ---------------------------------------------------------------- requests
\* A request is one call of a handler: its arguments, its position in the
\* handler (pc), the values it holds in local variables, and its outcome.
\* status: "ok" (success returned), "rejected" (a check of the handler
\* raised), "failed" (a statement sent to the store raised).
\* before, wrote_cash, wrote_pos, saw_cash, saw_pos record history only.
Snapshot == [cash_balance |-> cash_balance, positions |-> positions, withdrawals |-> withdrawals]

NewReq(op) ==
    [op |-> op, pc |-> "done", status |-> "ok", symbol |-> "", quantity |-> 0,
     price |-> 0, amount |-> 0, cash |-> cash_balance, pos |-> NoRow,
     realized_pl |-> RInt(0), total_value |-> RInt(0),
     before |-> Snapshot, wrote_cash |-> FALSE, wrote_pos |-> FALSE,
     saw_cash |-> {}, saw_pos |-> {}]

Running(i) == reqs[i].pc # "done"
CanStart == n_calls < MaxReqs
Idle == DOMAIN reqs = {}

\* the handler is entered: the request gets the next number
Enter(r) ==
    /\ n_calls' = n_calls + 1
    /\ reqs' = [i \in DOMAIN reqs \cup {n_calls + 1} |->
                  IF i = n_calls + 1 THEN r ELSE reqs[i]]

Finish(i, status) == reqs' = [reqs EXCEPT ![i].pc = "done", ![i].status = status]

\* ---------------------------------------------------- the file ledger
Users == {"u1", "u2"}
Insts == 1 .. MaxInst

\* market of a symbol as the callers give it: NSE symbols have no quote API
MarketOf(symbol) == IF symbol = "SCOM" THEN "NSE" ELSE "US"

\* an optional value: None, or Some(v)
None == << >>
Some(v) == << v >>

\* Position(...).to_dict(), the fields the computations read
PositionDict(symbol, quantity, purchase_price, market) ==
    [symbol |-> symbol, quantity |-> quantity, purchase_price |-> purchase_price,
     market |-> market]

\* _empty_portfolio(): no positions, no withdrawals, no cash, no manual price
EmptyPortfolio ==
    [positions |-> << >>, withdrawals |-> << >>, cash_balance |-> 0,
     manual_prices |-> << >>]

NoCall == [op |-> "none", symbol |-> "", quantity |-> 0, price |-> 0, amount |-> 0,
           success |-> TRUE, before |-> EmptyPortfolio, now |-> 0]

NoResult == [holdings |-> << >>, total_value |-> 0, total_cost_basis |-> 0,
             cash_balance |-> 0, total_pl |-> 0, total_pl_percent |-> RInt(0),
             positions_count |-> 0, unique_assets |-> 0, quote |-> << >>,
             last_updated |-> 0]

\* a PortfolioManager object that does not exist yet; prev is what the
\* valuation before the last one returned, when nothing changed in between
NoManager ==
    [pc |-> "none", user_id |-> "", portfolio |-> EmptyPortfolio, db |-> << >>,
     call |-> NoCall, result |-> NoResult, prev |-> NoResult]

InitServer ==
    /\ cash_balance = StartCash
    /\ positions = << NewPositionRow(1, "AAPL", 2, 1) >>
    /\ withdrawals = << >>
    /\ trade_history = << >>
    /\ next_id = 2
    /\ n_calls = 0
    /\ reqs = << >>

InitFile ==
    /\ db = [u \in Users |->
               IF u = "u1"
               THEN [EmptyPortfolio EXCEPT
                        !.positions = << PositionDict("AAPL", 2, 1, "US"),
                                         PositionDict("SCOM", 1, 2, "NSE") >>,
                        !.cash_balance = StartCash]
               ELSE EmptyPortfolio]
    /\ pm = [i \in Insts |-> NoManager]
    /\ n_ops = 0

InitClock == now = 0

Threads == 1 .. MaxThreads

\* a thread that runs no cache operation yet
NoThread ==
    [pc |-> "idle", op |-> "none", key |-> "", t0 |-> 0, result |-> None,
     saw |-> None, failed |-> FALSE, called |-> FALSE, source |-> "",
     summary |-> None]

\* MarketDataFetcher.__init__ and ConversationalChatbot.__init__: empty caches
InitCache ==
    /\ cache = << >>
    /\ cache_expiry = << >>
    /\ news_cache = << >>
    /\ thr = [t \in Threads |-> NoThread]
    /\ clock = 0
    /\ n_cache_ops = 0

\* no computation called yet
NoFn == [op |-> "none"]

\* the generator as import random leaves it: not seeded by the program
InitCalc ==
    /\ fn = NoFn
    /\ rng = [state |-> 0, seed |-> None]

\* a computation can be called
CanCompute == fn = NoFn

Init == InitServer /\ InitFile /\ InitClock /\ InitCache /\ InitCalc

\* ------------------------------------------------------------ deposit_cash
\* ensure_portfolio reads the portfolio row; amount <= 0 is refused
deposit_cash(amount) ==
    /\ CanStart
    /\ Enter(
          IF amount <= 0
          THEN [NewReq("deposit") EXCEPT !.amount = amount, !.status = "rejected"]
          ELSE [NewReq("deposit") EXCEPT !.amount = amount, !.pc = "d_write"])
    /\ UNCHANGED <<cash_balance, positions, withdrawals, trade_history, next_id>>
    /\ UNCHANGED pm_vars

\* update portfolios set cash_balance = (balance read) + amount
deposit_write(i) ==
    /\ reqs[i].pc = "d_write"
    /\ \/ /\ cash_balance' = reqs[i].cash + reqs[i].amount
          /\ reqs' = [reqs EXCEPT ![i].pc = "done", ![i].wrote_cash = TRUE]
       \/ /\ UNCHANGED cash_balance
          /\ Finish(i, "failed")
    /\ UNCHANGED <<positions, withdrawals, trade_history, next_id, n_calls>>
    /\ UNCHANGED pm_vars

\* ------------------------------------------------------------ add_position
\* ensure_portfolio reads the cash; the only check is cash >= quantity * price
add_position(symbol, quantity, purchase_price) ==
    /\ CanStart
    /\ LET total_cost == quantity * purchase_price
           r == [NewReq("buy") EXCEPT !.symbol = symbol, !.quantity = quantity,
                                      !.price = purchase_price]
       IN  Enter(
              IF cash_balance < total_cost
              THEN [r EXCEPT !.status = "rejected"]
              ELSE [r EXCEPT !.pc = "a_select"])
    /\ UNCHANGED <<cash_balance, positions, withdrawals, trade_history, next_id>>
    /\ UNCHANGED pm_vars

\* select the position row of the symbol
add_select(i) ==
    /\ reqs[i].pc = "a_select"
    /\ reqs' = [reqs EXCEPT ![i].pc = "a_position", ![i].pos = SelectPosition(reqs[i].symbol)]
    /\ UNCHANGED <<cash_balance, positions, withdrawals, trade_history, next_id, n_calls>>
    /\ UNCHANGED pm_vars

\* update the row read (entries appended, aggregates recomputed), or insert
\* a new row when none was read
add_write_position(i) ==
    /\ reqs[i].pc = "a_position"
    /\ \/ /\ IF reqs[i].pos # NoRow
             THEN /\ positions' = UpdateRows(reqs[i].pos.id,
                         AddEntryToRow(reqs[i].pos, reqs[i].quantity, reqs[i].price))
                  /\ UNCHANGED next_id
             ELSE /\ positions' = Append(positions,
                         NewPositionRow(next_id, reqs[i].symbol, reqs[i].quantity, reqs[i].price))
                  /\ next_id' = next_id + 1
          /\ reqs' = [reqs EXCEPT ![i].pc = "a_cash", ![i].wrote_pos = TRUE]
       \/ /\ UNCHANGED <<positions, next_id>>
          /\ Finish(i, "failed")
    /\ UNCHANGED <<cash_balance, withdrawals, trade_history, n_calls>>
    /\ UNCHANGED pm_vars

\* update portfolios set cash_balance = (balance read) - total_cost
add_write_cash(i) ==
    /\ reqs[i].pc = "a_cash"
    /\ \/ /\ cash_balance' = reqs[i].cash - reqs[i].quantity * reqs[i].price
          /\ reqs' = [reqs EXCEPT ![i].pc = "done", ![i].wrote_cash = TRUE]
       \/ /\ UNCHANGED cash_balance
          /\ Finish(i, "failed")
    /\ UNCHANGED <<positions, withdrawals, trade_history, next_id, n_calls>>
    /\ UNCHANGED pm_vars

\* ----------------------------------------------------------- sell_position
sell_position(symbol, quantity_to_sell, sell_price) ==
    /\ CanStart
    /\ Enter(
          [NewReq("sell") EXCEPT !.symbol = symbol, !.quantity = quantity_to_sell,
                                 !.price = sell_price, !.pc = "s_select"])
    /\ UNCHANGED <<cash_balance, positions, withdrawals, trade_history, next_id>>
    /\ UNCHANGED pm_vars

\* sell_position without the comparison of quantity_to_sell with the quantity held
sell_select_unchecked(i) ==
    /\ reqs[i].pc = "s_select"
    /\ LET pos == SelectPosition(reqs[i].symbol)
           sale_proceeds == reqs[i].quantity * reqs[i].price
           cost_basis == RMul(RInt(reqs[i].quantity), pos.average_cost)
       IN  IF pos = NoRow
           THEN Finish(i, "rejected")
           ELSE reqs' = [reqs EXCEPT ![i].pc = "s_cash", ![i].pos = pos,
                             ![i].realized_pl = RSub(RInt(sale_proceeds), cost_basis)]
    /\ UNCHANGED <<cash_balance, positions, withdrawals, trade_history, next_id, n_calls>>
    /\ UNCHANGED pm_vars

\* select the position row; refuse an unknown symbol and a quantity above
\* the row's total_quantity; compute the realized profit
sell_select(i) ==
    /\ reqs[i].pc = "s_select"
    /\ LET pos == SelectPosition(reqs[i].symbol)
           sale_proceeds == reqs[i].quantity * reqs[i].price
           cost_basis == RMul(RInt(reqs[i].quantity), pos.average_cost)
       IN  IF pos = NoRow \/ reqs[i].quantity > pos.total_quantity
           THEN Finish(i, "rejected")
           ELSE reqs' = [reqs EXCEPT ![i].pc = "s_cash", ![i].pos = pos,
                             ![i].realized_pl = RSub(RInt(sale_proceeds), cost_basis)]
    /\ UNCHANGED <<cash_balance, positions, withdrawals, trade_history, next_id, n_calls>>
    /\ UNCHANGED pm_vars

\* update portfolios set cash_balance = (balance read) + sale_proceeds
sell_write_cash(i) ==
    /\ reqs[i].pc = "s_cash"
    /\ \/ /\ cash_balance' = reqs[i].cash + reqs[i].quantity * reqs[i].price
          /\ reqs' = [reqs EXCEPT ![i].pc = "s_trade", ![i].wrote_cash = TRUE]
       \/ /\ UNCHANGED cash_balance
          /\ Finish(i, "failed")
    /\ UNCHANGED <<positions, withdrawals, trade_history, next_id, n_calls>>
    /\ UNCHANGED pm_vars

\* insert into trade_history; a failure is logged and the handler goes on
sell_insert_trade(i) ==
    /\ reqs[i].pc = "s_trade"
    /\ \/ trade_history' = Append(trade_history,
              [symbol |-> reqs[i].symbol, quantity |-> reqs[i].quantity,
               realized_pl |-> reqs[i].realized_pl])
       \/ UNCHANGED trade_history
    /\ reqs' = [reqs EXCEPT ![i].pc = "s_position"]
    /\ UNCHANGED <<cash_balance, positions, withdrawals, next_id, n_calls>>
    /\ UNCHANGED pm_vars

\* sell_position whose partial sale reduces total_quantity and leaves
\* total_invested as it was
sell_write_position_unscaled(i) ==
    /\ reqs[i].pc = "s_position"
    /\ LET pos == reqs[i].pos
           current_quantity == pos.total_quantity
           new_quantity == current_quantity - reqs[i].quantity
       IN  \/ /\ reqs[i].quantity >= current_quantity
              /\ positions' = DeleteRows(pos.id)
              /\ reqs' = [reqs EXCEPT ![i].pc = "done", ![i].wrote_pos = TRUE]
           \/ /\ reqs[i].quantity < current_quantity
              /\ positions' = UpdateRows(pos.id,
                     [total_quantity |-> new_quantity,
                      total_invested |-> pos.total_invested])
              /\ reqs' = [reqs EXCEPT ![i].pc = "done", ![i].wrote_pos = TRUE]
           \/ /\ UNCHANGED positions
              /\ Finish(i, "failed")
    /\ UNCHANGED <<cash_balance, withdrawals, trade_history, next_id, n_calls>>
    /\ UNCHANGED pm_vars

\* delete the row read when the whole quantity is sold, else reduce its
\* total_quantity and scale its total_invested by remaining / before
sell_write_position(i) ==
    /\ reqs[i].pc = "s_position"
    /\ LET pos == reqs[i].pos
           current_quantity == pos.total_quantity
           new_quantity == current_quantity - reqs[i].quantity
       IN  \/ /\ reqs[i].quantity >= current_quantity
              /\ positions' = DeleteRows(pos.id)
              /\ reqs' = [reqs EXCEPT ![i].pc = "done", ![i].wrote_pos = TRUE]
           \/ /\ reqs[i].quantity < current_quantity
              /\ current_quantity # 0
              /\ positions' = UpdateRows(pos.id,
                     [total_quantity |-> new_quantity,
                      total_invested |-> RMul(pos.total_invested,
                                              Rat(new_quantity, current_quantity))])
              /\ reqs' = [reqs EXCEPT ![i].pc = "done", ![i].wrote_pos = TRUE]
           \/ /\ reqs[i].quantity < current_quantity
              /\ current_quantity = 0      \* new_quantity / current_quantity raises
              /\ UNCHANGED positions
              /\ Finish(i, "failed")
           \/ /\ UNCHANGED positions
              /\ Finish(i, "failed")
    /\ UNCHANGED <<cash_balance, withdrawals, trade_history, next_id, n_calls>>
    /\ UNCHANGED pm_vars

\* ---------------------------------------------------------- add_withdrawal
\* ensure_portfolio reads the cash; the only check is cash >= amount
add_withdrawal(amount) ==
    /\ CanStart
    /\ Enter(
          IF cash_balance < amount
          THEN [NewReq("withdraw") EXCEPT !.amount = amount, !.status = "rejected"]
          ELSE [NewReq("withdraw") EXCEPT !.amount = amount, !.pc = "w_cash"])
    /\ UNCHANGED <<cash_balance, positions, withdrawals, trade_history, next_id>>
    /\ UNCHANGED pm_vars

\* update portfolios set cash_balance = (balance read) - amount
withdrawal_write_cash(i) ==
    /\ reqs[i].pc = "w_cash"
    /\ \/ /\ cash_balance' = reqs[i].cash - reqs[i].amount
          /\ reqs' = [reqs EXCEPT ![i].pc = "w_insert", ![i].wrote_cash = TRUE]
       \/ /\ UNCHANGED cash_balance
          /\ Finish(i, "failed")
    /\ UNCHANGED <<positions, withdrawals, trade_history, next_id, n_calls>>
    /\ UNCHANGED pm_vars

\* insert into withdrawals
withdrawal_insert(i) ==
    /\ reqs[i].pc = "w_insert"
    /\ \/ /\ withdrawals' = Append(withdrawals, reqs[i].amount)
          /\ Finish(i, "ok")
       \/ /\ UNCHANGED withdrawals
          /\ Finish(i, "failed")
    /\ UNCHANGED <<cash_balance, positions, trade_history, next_id, n_calls>>
    /\ UNCHANGED pm_vars

\* --------------------------------------------------- get_portfolio_summary
\* the requests whose cash write / position write the store holds
CashWriters == {j \in DOMAIN reqs : reqs[j].wrote_cash}
PosWriters == {j \in DOMAIN reqs : reqs[j].wrote_pos}

\* total_invested += float(p['total_invested']) over the rows
RECURSIVE TotalInvested(_)
TotalInvested(rows) ==
    IF rows = << >> THEN RInt(0)
    ELSE RAdd(Head(rows).total_invested, TotalInvested(Tail(rows)))

\* ensure_portfolio reads the cash
get_portfolio_summary ==
    /\ CanStart
    /\ Enter(
          [NewReq("summary") EXCEPT !.pc = "r_positions", !.saw_cash = CashWriters])
    /\ UNCHANGED <<cash_balance, positions, withdrawals, trade_history, next_id>>
    /\ UNCHANGED pm_vars

\* select the position rows; total_value = cash_balance + total_invested
summary_positions(i) ==
    /\ reqs[i].pc = "r_positions"
    /\ reqs' = [reqs EXCEPT ![i].pc = "done", ![i].saw_pos = PosWriters,
                    ![i].total_value = RAdd(RInt(reqs[i].cash), TotalInvested(positions))]
    /\ UNCHANGED <<cash_balance, positions, withdrawals, trade_history, next_id, n_calls>>
    /\ UNCHANGED pm_vars

\* ------------------------------------------------------------ specification
\* the handler has returned its response (or raised): the request is over
return(i) ==
    /\ reqs[i].pc = "done"
    /\ reqs' = [j \in DOMAIN reqs \ {i} |-> reqs[j]]
    /\ UNCHANGED <<cash_balance, positions, withdrawals, trade_history, next_id, n_calls>>
    /\ UNCHANGED pm_vars

Step(i) ==
    \/ deposit_write(i)
    \/ add_select(i)
    \/ add_write_position(i)
    \/ add_write_cash(i)
    \/ sell_select(i)
    \/ sell_write_cash(i)
    \/ sell_insert_trade(i)
    \/ sell_write_position(i)
    \/ withdrawal_write_cash(i)
    \/ withdrawal_insert(i)
    \/ summary_positions(i)
    \/ return(i)

Call ==
    \/ \E amount \in Amounts : deposit_cash(amount)
    \/ \E symbol \in Symbols, quantity \in Quantities, price \in Prices :
          add_position(symbol, quantity, price)
    \/ \E symbol \in Symbols, quantity \in Quantities, price \in Prices :
          sell_position(symbol, quantity, price)
    \/ \E amount \in Amounts : add_withdrawal(amount)
    \/ get_portfolio_summary

\* requests of several workers: their statements interleave
Next ==
    \/ Call
    \/ \E i \in DOMAIN reqs : Step(i)

Spec == Init /\ [][Next]_vars

\* one request at a time: a call starts only when no request is running
NextSeq ==
    \/ Idle /\ Call
    \/ \E i \in DOMAIN reqs : Step(i)

SpecSeq == Init /\ [][NextSeq]_vars

\* a sequence of buys, one at a time
NextBuys ==
    \/ /\ Idle
       /\ \E symbol \in Symbols, quantity \in Quantities, price \in Prices :
             add_position(symbol, quantity, price)
    \/ \E i \in DOMAIN reqs :
          add_select(i) \/ add_write_position(i) \/ add_write_cash(i) \/ return(i)

SpecBuys == Init /\ [][NextBuys]_vars

\* ======================================================= PortfolioManager
\* __init__: _load_portfolio reads the file and keeps the user's portfolio
PortfolioManager(i, user_id) ==
    /\ pm[i].pc = "none"
    /\ pm' = [pm EXCEPT ![i] = [NoManager EXCEPT !.pc = "ready", !.user_id = user_id,
                                                 !.portfolio = db[user_id]]]
    /\ UNCHANGED <<db, n_ops>>
    /\ UNCHANGED server_vars

\* A method that changes self.portfolio and calls _save_portfolio runs in two
\* steps: up to the point where _save_portfolio has read the whole file and
\* put self.portfolio in the copy it read, and then the writing of the file.
CanCall(i) == pm[i].pc = "ready" /\ n_ops < MaxOps

\* the object after the first step, given the call and the changed portfolio
Saving(i, call, portfolio) ==
    [pm[i] EXCEPT !.pc = "save_write",
                  !.call = [call EXCEPT !.before = pm[i].portfolio],
                  !.portfolio = portfolio,
                  !.db = [db EXCEPT ![pm[i].user_id] = portfolio],
                  !.result = NoResult]

\* _save_portfolio: json.dump(db, f) of the copy read before
PM_save_portfolio(i) ==
    /\ pm[i].pc = "save_write"
    /\ db' = pm[i].db
    /\ pm' = [pm EXCEPT ![i].pc = "ready", ![i].db = << >>]
    /\ UNCHANGED n_ops
    /\ UNCHANGED server_vars

\* add_position: the position is appended; nothing is checked
PM_add_position(i, symbol, quantity, purchase_price) ==
    /\ CanCall(i)
    /\ pm' = [pm EXCEPT ![i] = Saving(i,
                 [NoCall EXCEPT !.op = "add_position", !.symbol = symbol,
                                !.quantity = quantity, !.price = purchase_price],
                 [pm[i].portfolio EXCEPT !.positions =
                     Append(@, PositionDict(symbol, quantity, purchase_price, MarketOf(symbol)))])]
    /\ n_ops' = n_ops + 1
    /\ UNCHANGED db
    /\ UNCHANGED server_vars

\* add_withdrawal: the withdrawal is appended; the cash is neither checked
\* nor changed
PM_add_withdrawal(i, amount) ==
    /\ CanCall(i)
    /\ pm' = [pm EXCEPT ![i] = Saving(i,
                 [NoCall EXCEPT !.op = "add_withdrawal", !.amount = amount],
                 [pm[i].portfolio EXCEPT !.withdrawals = Append(@, amount)])]
    /\ n_ops' = n_ops + 1
    /\ UNCHANGED db
    /\ UNCHANGED server_vars

\* update_manual_price: manual_prices[symbol] = {price, last_updated}
PM_update_manual_price(i, symbol, price) ==
    /\ CanCall(i)
    /\ pm' = [pm EXCEPT ![i] = Saving(i,
                 [NoCall EXCEPT !.op = "update_manual_price", !.symbol = symbol,
                                !.price = price],
                 [pm[i].portfolio EXCEPT !.manual_prices =
                     [x \in DOMAIN @ \cup {symbol} |->
                         IF x = symbol THEN [price |-> price, last_updated |-> now]
                         ELSE @[x]]])]
    /\ n_ops' = n_ops + 1
    /\ UNCHANGED db
    /\ UNCHANGED server_vars

\* ------------------------------------------------------------- valuation
\* get_positions_by_symbol
get_positions_by_symbol(portfolio, symbol) ==
    SelectSeq(portfolio.positions, LAMBDA p : p.symbol = symbol)

\* get_unique_symbols
get_unique_symbols(portfolio) ==
    {portfolio.positions[k].symbol : k \in 1 .. Len(portfolio.positions)}

\* get_current_price: the manual price of an NSE symbol, else the quote of
\* the API; None when there is none (quote[symbol] = None: the API failed)
get_current_price(portfolio, symbol, market, quote) ==
    IF market = "NSE"
    THEN IF symbol \in DOMAIN portfolio.manual_prices
         THEN Some(portfolio.manual_prices[symbol].price)
         ELSE None
    ELSE quote[symbol]

\* calculate_position_pl, the sums calculate_symbol_pl takes of it
RECURSIVE TotalQuantity(_)
TotalQuantity(ps) == IF ps = << >> THEN 0 ELSE Head(ps).quantity + TotalQuantity(Tail(ps))

RECURSIVE TotalCostBasis(_)
TotalCostBasis(ps) ==
    IF ps = << >> THEN 0
    ELSE Head(ps).quantity * Head(ps).purchase_price + TotalCostBasis(Tail(ps))

\* calculate_symbol_pl: {'error': ...} when the symbol has no price
calculate_symbol_pl(portfolio, symbol, quote) ==
    LET ps == get_positions_by_symbol(portfolio, symbol)
        current_price == get_current_price(portfolio, symbol, ps[1].market, quote)
        total_quantity == TotalQuantity(ps)
        total_cost_basis == TotalCostBasis(ps)
        total_current_value == total_quantity * current_price[1]
        total_pl == total_current_value - total_cost_basis
    IN  IF current_price = None
        THEN [error |-> TRUE, symbol |-> symbol]
        ELSE [error |-> FALSE, symbol |-> symbol,
              total_quantity |-> total_quantity,
              average_cost |-> IF total_quantity > 0
                               THEN Rat(total_cost_basis, total_quantity) ELSE RInt(0),
              current_price |-> current_price[1],
              total_cost_basis |-> total_cost_basis,
              current_value |-> total_current_value,
              total_pl |-> total_pl,
              total_pl_percent |-> IF total_cost_basis > 0
                                   THEN Rat(total_pl * 100, total_cost_basis) ELSE RInt(0),
              entry_count |-> Len(ps)]

RECURSIVE SumOver(_, _)
SumOver(f, S) ==
    IF S = {} THEN 0
    ELSE LET x == CHOOSE y \in S : TRUE IN f[x] + SumOver(f, S \ {x})

\* calculate_total_portfolio: the symbols whose calculate_symbol_pl has no
\* error are the holdings; the cash is added to their value; the result
\* carries datetime.now() as last_updated
calculate_total_portfolio(portfolio, quote) ==
    LET symbols == get_unique_symbols(portfolio)
        pl == [x \in symbols |-> calculate_symbol_pl(portfolio, x, quote)]
        held == {x \in symbols : ~pl[x].error}
        holdings == [x \in held |-> pl[x]]
        cash == portfolio.cash_balance
        total_value == SumOver([x \in held |-> pl[x].current_value], held) + cash
        total_cost == SumOver([x \in held |-> pl[x].total_cost_basis], held)
        total_pl == total_value - total_cost
    IN  [holdings |-> holdings,
         total_value |-> total_value,
         total_cost_basis |-> total_cost,
         cash_balance |-> cash,
         total_pl |-> total_pl,
         total_pl_percent |-> IF total_cost > 0 THEN Rat(total_pl * 100, total_cost) ELSE RInt(0),
         positions_count |-> Len(portfolio.positions),
         unique_assets |-> Cardinality(symbols),
         quote |-> quote,
         last_updated |-> now]

\* what the quote API answers for the symbols: a price, or None (an error,
\* a timeout, no data)
Quotes == [Symbols -> {None} \cup {Some(p) : p \in 1 .. MaxPrice}]

\* a call of calculate_total_portfolio
PM_calculate_total_portfolio(i, quote) ==
    /\ CanCall(i)
    /\ n_ops' = n_ops + 1
    /\ pm' = [pm EXCEPT ![i].call = [NoCall EXCEPT !.op = "calculate_total_portfolio",
                                                   !.before = pm[i].portfolio,
                                                   !.now = now],
                        ![i].result = calculate_total_portfolio(pm[i].portfolio, quote),
                        ![i].prev = pm[i].result]
    /\ UNCHANGED db
    /\ UNCHANGED server_vars

NextPM ==
    \/ \E i \in Insts, user_id \in Users : PortfolioManager(i, user_id)
    \/ \E i \in Insts, symbol \in Symbols, quantity \in Quantities, price \in Prices :
          PM_add_position(i, symbol, quantity, price)
    \/ \E i \in Insts, amount \in Amounts : PM_add_withdrawal(i, amount)
    \/ \E i \in Insts, symbol \in Symbols, price \in Prices :
          PM_update_manual_price(i, symbol, price)
    \/ \E i \in Insts : PM_save_portfolio(i)
    \/ \E i \in Insts, quote \in Quotes : PM_calculate_total_portfolio(i, quote)

SpecPM == Init /\ [][NextPM]_vars

\* ------------------------------------------------------------ manual prices
\* a manual price older than this many hours needs an update
StaleAfter == 24

\* needs_price_update at time t
needs_price_update(portfolio, symbol, t) ==
    IF symbol \notin DOMAIN portfolio.manual_prices
    THEN TRUE
    ELSE t - portfolio.manual_prices[symbol].last_updated > StaleAfter

\* time passes
Tick ==
    /\ now + TickHours <= MaxNow
    /\ now' = now + TickHours
    /\ UNCHANGED ledger_vars
    /\ UNCHANGED <<cache_vars, calc_vars>>

\* the PortfolioManager of a user who keeps manual prices, while time passes
NextClock ==
    \/ Tick
    \/ \E i \in Insts, user_id \in Users : PortfolioManager(i, user_id)
    \/ \E i \in Insts, symbol \in Symbols, price \in Prices :
          PM_update_manual_price(i, symbol, price)
    \/ \E i \in Insts : PM_save_portfolio(i)
    \/ \E i \in Insts, quote \in Quotes : PM_calculate_total_portfolio(i, quote)

SpecClock == Init /\ [][NextClock]_vars

\* ------------------------------------------------------------------ caches
\* minutes an NSE price stays in MarketDataFetcher.cache
NSE_TTL_MINUTES == 15
\* NEWS_TTL_SECONDS, in minutes
NEWS_TTL == 30

\* the tickers asked for: SCOM is one of the pre-configured prices, ABSA
\* goes to the web search
Tickers == {"SCOM", "ABSA"}
cached_prices == {"SCOM"}

\* d with key k bound to v
Put(d, k, v) == [x \in DOMAIN d \cup {k} |-> IF x = k THEN v ELSE d[x]]

\* a thread may start an operation
CanRun(t) == thr[t].pc \in {"idle", "done"} /\ n_cache_ops < MaxCacheOps

\* thread t starts an operation with the given locals; the operations that
\* have ended are over and their locals gone
Starts(t, locals) ==
    [u \in Threads |-> IF u = t THEN locals
                       ELSE IF thr[u].pc = "done" THEN NoThread ELSE thr[u]]

\* where a thread is when its cache lookup has returned: _fetch_smart_data
\* goes on to the summaries, the other operations are over
After(t) == IF thr[t].op = "fetch_smart_data" THEN "summary_check" ELSE "done"

\* the thread's operation ends with the given locals
Ends(t, fields) == [x \in DOMAIN thr[t] |->
                       IF x = "pc" THEN After(t)
                       ELSE IF x \in DOMAIN fields THEN fields[x] ELSE thr[t][x]]

\* _fetch_nse_price: cache_key in self.cache
fetch_nse_price(t, ticker) ==
    /\ CanRun(t)
    /\ n_cache_ops' = n_cache_ops + 1
    /\ thr' = Starts(t,
                 [NoThread EXCEPT !.op = "fetch_nse_price", !.key = ticker,
                                  !.pc = IF ticker \in DOMAIN cache
                                         THEN "in_expiry" ELSE "fetch"])
    /\ UNCHANGED <<cache, cache_expiry, news_cache, clock>>
    /\ UNCHANGED <<ledger_vars, now, calc_vars>>

\* cache_key in self.cache_expiry
nse_in_expiry(t) ==
    /\ thr[t].pc = "in_expiry"
    /\ thr' = [thr EXCEPT ![t].pc = IF thr[t].key \in DOMAIN cache_expiry
                                     THEN "compare" ELSE "fetch"]
    /\ UNCHANGED <<cache, cache_expiry, news_cache, clock, n_cache_ops>>
    /\ UNCHANGED <<ledger_vars, now, calc_vars>>

\* datetime.now() < self.cache_expiry[cache_key]; KeyError when the key is gone
nse_compare(t) ==
    /\ thr[t].pc = "compare"
    /\ thr' = [thr EXCEPT ![t] =
                 IF thr[t].key \notin DOMAIN cache_expiry
                 THEN Ends(t, [failed |-> TRUE])
                 ELSE IF clock < cache_expiry[thr[t].key].until
                      THEN [thr[t] EXCEPT !.pc = "return",
                                          !.saw = Some(cache_expiry[thr[t].key])]
                      ELSE [thr[t] EXCEPT !.pc = "fetch"]]
    /\ UNCHANGED <<cache, cache_expiry, news_cache, clock, n_cache_ops>>
    /\ UNCHANGED <<ledger_vars, now, calc_vars>>

\* return self.cache[cache_key]; KeyError when the key is gone
nse_return(t) ==
    /\ thr[t].pc = "return"
    /\ thr' = [thr EXCEPT ![t] =
                 IF thr[t].key \notin DOMAIN cache
                 THEN Ends(t, [failed |-> TRUE])
                 ELSE Ends(t, [result |-> Some(cache[thr[t].key])])]
    /\ UNCHANGED <<cache, cache_expiry, news_cache, clock, n_cache_ops>>
    /\ UNCHANGED <<ledger_vars, now, calc_vars>>

\* the price is a pre-configured one or the web search's answer (None: no
\* answer, nothing cached); self.cache[cache_key] = result
nse_fetch(t) ==
    /\ thr[t].pc = "fetch"
    /\ \/ /\ cache' = Put(cache, thr[t].key,
                          [price |-> thr[t].key, timestamp |-> clock, by |-> n_cache_ops])
          /\ thr' = [thr EXCEPT ![t].pc = "store_expiry",
                                ![t].result = Some(cache'[thr[t].key])]
       \/ /\ thr[t].key \notin cached_prices
          /\ thr' = [thr EXCEPT ![t] = Ends(t, [result |-> None])]
          /\ UNCHANGED cache
    /\ UNCHANGED <<cache_expiry, news_cache, clock, n_cache_ops>>
    /\ UNCHANGED <<ledger_vars, now, calc_vars>>

\* self.cache_expiry[cache_key] = datetime.now() + timedelta(minutes=15)
nse_store_expiry(t) ==
    /\ thr[t].pc = "store_expiry"
    /\ cache_expiry' = Put(cache_expiry, thr[t].key,
                           [until |-> clock + NSE_TTL_MINUTES, by |-> thr[t].result[1].by])
    /\ thr' = [thr EXCEPT ![t].pc = "done"]
    /\ UNCHANGED <<cache, news_cache, clock, n_cache_ops>>
    /\ UNCHANGED <<ledger_vars, now, calc_vars>>

\* generate_profile_card: self.market_data.cache = {}
clear_cache(t) ==
    /\ CanRun(t)
    /\ n_cache_ops' = n_cache_ops + 1
    /\ cache' = << >>
    /\ thr' = Starts(t, [NoThread EXCEPT !.op = "clear", !.pc = "clear_expiry"])
    /\ UNCHANGED <<cache_expiry, news_cache, clock>>
    /\ UNCHANGED <<ledger_vars, now, calc_vars>>

\* self.market_data.cache_expiry = {}
clear_expiry(t) ==
    /\ thr[t].pc = "clear_expiry"
    /\ cache_expiry' = << >>
    /\ thr' = [thr EXCEPT ![t].pc = "done"]
    /\ UNCHANGED <<cache, news_cache, clock, n_cache_ops>>
    /\ UNCHANGED <<ledger_vars, now, calc_vars>>

\* _fetch_news_with_cache: now = time.time()
fetch_news_with_cache(t, symbol) ==
    /\ CanRun(t)
    /\ n_cache_ops' = n_cache_ops + 1
    /\ thr' = Starts(t,
                 [NoThread EXCEPT !.op = "fetch_news", !.key = symbol, !.t0 = clock,
                                  !.pc = "news_check"])
    /\ UNCHANGED <<cache, cache_expiry, news_cache, clock>>
    /\ UNCHANGED <<ledger_vars, now, calc_vars>>

\* _fetch_news_with_cache that also answers from an entry exactly as old as
\* the TTL
news_check_inclusive(t) ==
    /\ thr[t].pc = "news_check"
    /\ LET key == thr[t].key
           cached == IF key \in DOMAIN news_cache THEN Some(news_cache[key]) ELSE None
       IN  thr' = [thr EXCEPT ![t] =
                     IF cached # None /\ thr[t].t0 - cached[1].timestamp <= NEWS_TTL
                     THEN Ends(t, [saw |-> cached, source |-> "cache",
                                   result |-> Some([articles |-> cached[1].data.articles,
                                                    fetched_at |-> cached[1].data.fetched_at,
                                                    source |-> "cache"])])
                     ELSE [thr[t] EXCEPT !.pc = "news_fetch", !.saw = cached]]
    /\ UNCHANGED <<cache, cache_expiry, news_cache, clock, n_cache_ops>>
    /\ UNCHANGED <<ledger_vars, now, calc_vars>>

\* under the lock: the entry is returned when it is younger than the TTL
news_check(t) ==
    /\ thr[t].pc = "news_check"
    /\ LET key == thr[t].key
           cached == IF key \in DOMAIN news_cache THEN Some(news_cache[key]) ELSE None
       IN  thr' = [thr EXCEPT ![t] =
                     IF cached # None /\ thr[t].t0 - cached[1].timestamp < NEWS_TTL
                     THEN Ends(t, [saw |-> cached, source |-> "cache",
                                   result |-> Some([articles |-> cached[1].data.articles,
                                                    fetched_at |-> cached[1].data.fetched_at,
                                                    source |-> "cache"])])
                     ELSE [thr[t] EXCEPT !.pc = "news_fetch", !.saw = cached]]
    /\ UNCHANGED <<cache, cache_expiry, news_cache, clock, n_cache_ops>>
    /\ UNCHANGED <<ledger_vars, now, calc_vars>>

\* what the providers answer: articles from FMP or Finnhub, none, an error
ProviderAnswers ==
    {[articles |-> <<"story">>, source |-> "fmp"],
     [articles |-> <<"story">>, source |-> "finnhub"],
     [articles |-> << >>, source |-> "none"],
     [articles |-> << >>, source |-> "error"]}

\* the providers are asked
news_fetch(t) ==
    /\ thr[t].pc = "news_fetch"
    /\ \E answer \in ProviderAnswers :
          thr' = [thr EXCEPT ![t].pc = "news_store", ![t].called = TRUE,
                             ![t].source = answer.source,
                             ![t].result = Some([articles |-> answer.articles,
                                                 fetched_at |-> clock,
                                                 source |-> answer.source])]
    /\ UNCHANGED <<cache, cache_expiry, news_cache, clock, n_cache_ops>>
    /\ UNCHANGED <<ledger_vars, now, calc_vars>>

\* under the lock: the entry is replaced
news_store(t) ==
    /\ thr[t].pc = "news_store"
    /\ news_cache' = Put(news_cache, thr[t].key,
                         [timestamp |-> thr[t].t0, data |-> thr[t].result[1],
                          summary |-> None])
    /\ thr' = [thr EXCEPT ![t].pc = After(t)]
    /\ UNCHANGED <<cache, cache_expiry, clock, n_cache_ops>>
    /\ UNCHANGED <<ledger_vars, now, calc_vars>>

\* time passes
TickClock ==
    /\ clock + TickMinutes <= MaxClock
    /\ clock' = clock + TickMinutes
    /\ UNCHANGED <<cache, cache_expiry, news_cache, thr, n_cache_ops>>
    /\ UNCHANGED <<ledger_vars, now, calc_vars>>

\* threads using the shared MarketDataFetcher while time passes
NextCache ==
    \/ \E t \in Threads, ticker \in Tickers : fetch_nse_price(t, ticker)
    \/ \E t \in Threads : nse_in_expiry(t)
    \/ \E t \in Threads : nse_compare(t)
    \/ \E t \in Threads : nse_return(t)
    \/ \E t \in Threads : nse_fetch(t)
    \/ \E t \in Threads : nse_store_expiry(t)
    \/ \E t \in Threads : clear_cache(t)
    \/ \E t \in Threads : clear_expiry(t)
    \/ TickClock

SpecCache == Init /\ [][NextCache]_vars

\* threads using the chatbot's news cache while time passes
NextNews ==
    \/ \E t \in Threads, symbol \in Symbols : fetch_news_with_cache(t, symbol)
    \/ \E t \in Threads : news_check(t)
    \/ \E t \in Threads : news_fetch(t)
    \/ \E t \in Threads : news_store(t)
    \/ TickClock

SpecNews == Init /\ [][NextNews]_vars

\* ------------------------------------------------------------ news summaries
\* what _summarize_news_batch makes of the articles it is given: the summary
\* remembers the articles, and when they were fetched
SummaryOf(data) == [of |-> [articles |-> data.articles, fetched_at |-> data.fetched_at]]

\* _fetch_smart_data for a symbol: step 2 calls _fetch_news_with_cache
fetch_smart_data(t, symbol) ==
    /\ CanRun(t)
    /\ n_cache_ops' = n_cache_ops + 1
    /\ thr' = Starts(t,
                 [NoThread EXCEPT !.op = "fetch_smart_data", !.key = symbol, !.t0 = clock,
                                  !.pc = "news_check"])
    /\ UNCHANGED <<cache, cache_expiry, news_cache, clock>>
    /\ UNCHANGED <<ledger_vars, now, calc_vars>>

\* step 3, under the lock: without articles, or with none of them relevant,
\* there is nothing to summarize; the summary of the entry is used when it
\* has one
summary_check(t) ==
    /\ thr[t].pc = "summary_check"
    /\ LET key == thr[t].key
           cached == IF key \in DOMAIN news_cache THEN Some(news_cache[key]) ELSE None
       IN  \/ thr' = [thr EXCEPT ![t].pc = "done"]
           \/ /\ thr[t].result[1].articles # << >>
              /\ thr' = [thr EXCEPT ![t] =
                     IF cached # None /\ cached[1].summary # None
                     THEN [thr[t] EXCEPT !.pc = "done", !.summary = cached[1].summary,
                                         !.source = "summary_cache"]
                     ELSE [thr[t] EXCEPT !.pc = "summarize"]]
    /\ UNCHANGED <<cache, cache_expiry, news_cache, clock, n_cache_ops>>
    /\ UNCHANGED <<ledger_vars, now, calc_vars>>

\* _summarize_news_batch: the model summarizes the articles the thread has,
\* or gives nothing
summarize_news_batch(t) ==
    /\ thr[t].pc = "summarize"
    /\ \/ thr' = [thr EXCEPT ![t].pc = "summary_store",
                              ![t].summary = Some(SummaryOf(thr[t].result[1]))]
       \/ thr' = [thr EXCEPT ![t].pc = "done"]
    /\ UNCHANGED <<cache, cache_expiry, news_cache, clock, n_cache_ops>>
    /\ UNCHANGED <<ledger_vars, now, calc_vars>>

\* under the lock: the summary is written into the entry the key has now
summary_store(t) ==
    /\ thr[t].pc = "summary_store"
    /\ news_cache' = IF thr[t].key \in DOMAIN news_cache
                     THEN [news_cache EXCEPT ![thr[t].key].summary = thr[t].summary]
                     ELSE news_cache
    /\ thr' = [thr EXCEPT ![t].pc = "done"]
    /\ UNCHANGED <<cache, cache_expiry, clock, n_cache_ops>>
    /\ UNCHANGED <<ledger_vars, now, calc_vars>>

\* threads answering chat messages about a symbol while time passes
NextSummary ==
    \/ \E t \in Threads, symbol \in Symbols : fetch_smart_data(t, symbol)
    \/ \E t \in Threads : news_check(t)
    \/ \E t \in Threads : news_fetch(t)
    \/ \E t \in Threads : news_store(t)
    \/ \E t \in Threads : summary_check(t)
    \/ \E t \in Threads : summarize_news_batch(t)
    \/ \E t \in Threads : summary_store(t)
    \/ TickClock

SpecSummary == Init /\ [][NextSummary]_vars

\* ============================================================ health score
\* get_withdrawal_summary(this year)['total_withdrawn']: the withdrawals of
\* the model are all of this year
get_withdrawal_summary(portfolio) == SumSeq(portfolio.withdrawals)

\* calculate_safe_withdrawal, given p, the valuation it makes: 4% of the
\* value, and what was withdrawn so far
calculate_safe_withdrawal(portfolio, p) ==
    LET portfolio_value == p.total_value
        safe_annual == Rat(portfolio_value * 4, 100)
        ytd == get_withdrawal_summary(portfolio)
    IN  [portfolio_value |-> portfolio_value,
         safe_annual |-> safe_annual,
         safe_monthly |-> RDiv(safe_annual, RInt(12)),
         ytd_withdrawn |-> ytd,
         remaining_this_year |-> RSub(safe_annual, RInt(ytd))]

\* calculate_allocation, given p, the valuation it makes: {'error': ...},
\* with no by_symbol, when the total value is 0; else each holding's share of
\* the total value, in percent
calculate_allocation(p) ==
    IF p.total_value = 0
    THEN [error |-> TRUE, by_symbol |-> << >>]
    ELSE [error |-> FALSE,
          by_symbol |-> [x \in DOMAIN p.holdings |->
                           [value |-> p.holdings[x].current_value,
                            percent |-> Rat(p.holdings[x].current_value * 100,
                                            p.total_value),
                            pl_percent |-> p.holdings[x].total_pl_percent]],
          total_value |-> p.total_value]

\* the weight _estimate_portfolio_risk gives a symbol, in tenths
RiskTenths(symbol) ==
    IF symbol \in {"TSLA", "NVDA", "AMD"} THEN 8
    ELSE IF symbol \in {"AAPL", "MSFT", "GOOGL", "AMZN"} THEN 5
    ELSE 3

\* _estimate_portfolio_risk, given the by_symbol of its allocation: 0.5 with
\* no holdings, else the weighted risk, kept between 0 and 1
estimate_portfolio_risk(by_symbol) ==
    LET S == DOMAIN by_symbol
        risk_total == RSumOver([x \in S |->
                         RMul(RDiv(by_symbol[x].percent, RInt(100)),
                              Rat(RiskTenths(x), 10))], S)
    IN  IF S = {} THEN Rat(1, 2)
        ELSE RMin(RInt(1), RMax(RInt(0), risk_total))

\* the four scores of calculate_portfolio_health_score and their sum, given
\* p, the valuation, and by_symbol, the allocation of it
health_scores(portfolio, p, by_symbol, user_risk_score) ==
    LET S == DOMAIN by_symbol
        over == {x \in S : RLt(RInt(15), by_symbol[x].percent)}
        concentration == RSumOver([x \in over |->
                            RMul(RSub(by_symbol[x].percent, RInt(15)), Rat(1, 2))], over)
        unique_count == Cardinality(S)
        few == IF unique_count < 5 THEN (5 - unique_count) * 3 ELSE 0
        diversification == RSub(RSub(RInt(25), concentration), RInt(few))
        risk_diff == RAbs(RSub(estimate_portfolio_risk(by_symbol), user_risk_score))
        pl_percent == p.total_pl_percent
        ytd_withdrawn == calculate_safe_withdrawal(portfolio, p).ytd_withdrawn
        ytd_rate == IF p.total_value > 0
                    THEN Rat(ytd_withdrawn, p.total_value) ELSE RInt(0)
        scores ==
            [diversification |-> RMax(RInt(0), RMin(RInt(25), diversification)),
             risk_alignment |-> IF RLt(risk_diff, Rat(1, 10)) THEN RInt(25)
                                ELSE IF RLt(risk_diff, Rat(2, 10)) THEN RInt(20)
                                ELSE IF RLt(risk_diff, Rat(3, 10)) THEN RInt(15)
                                ELSE RInt(10),
             performance |-> IF RLt(RInt(20), pl_percent) THEN RInt(25)
                             ELSE IF RLt(RInt(10), pl_percent) THEN RInt(20)
                             ELSE IF RLt(RInt(5), pl_percent) THEN RInt(15)
                             ELSE IF RLt(RInt(0), pl_percent) THEN RInt(10)
                             ELSE RInt(5),
             sustainability |-> IF RLt(ytd_rate, Rat(4, 100)) THEN RInt(25)
                                ELSE IF RLt(ytd_rate, Rat(5, 100)) THEN RInt(20)
                                ELSE IF RLt(ytd_rate, Rat(6, 100)) THEN RInt(15)
                                ELSE RInt(10)]
    IN  [scores |-> scores,
         total_score |-> RSumOver(scores, DOMAIN scores)]

\* calculate_portfolio_health_score: the allocation, the risk, the
\* performance and the withdrawals are taken of the valuation at the prices
\* of the quote
calculate_portfolio_health_score(portfolio, quote, user_risk_score) ==
    CHOOSE out \in
        {health_scores(portfolio, p, by_symbol, user_risk_score) :
            <<p, by_symbol>> \in
                {<<v, calculate_allocation(v).by_symbol>> :
                    v \in {calculate_total_portfolio(portfolio, quote)}}} : TRUE

\* the health score of get_portfolio_summary, from the position rows, the
\* withdrawals of the year and investor_profiles.risk_score
summary_health_score(rows, ytd_withdrawn, user_risk) ==
    LET total_invested == SumSeq([k \in 1 .. Len(rows) |-> rows[k].total_invested])
        unique_symbols == Cardinality({rows[k].symbol : k \in 1 .. Len(rows)})
        pct(k) == IF total_invested > 0
                  THEN Rat(rows[k].total_invested * 100, total_invested) ELSE RInt(0)
        largest == CHOOSE k \in 1 .. Len(rows) :
                      \A j \in 1 .. Len(rows) : RLe(pct(j), pct(k))
        max_position_pct == pct(largest)
        safe_annual == Rat(total_invested * 4, 100)
        ytd == RInt(ytd_withdrawn)
        scores ==
            [diversification |-> IF unique_symbols >= 10 THEN 30
                                 ELSE IF unique_symbols >= 5 THEN 20
                                 ELSE IF unique_symbols >= 3 THEN 10
                                 ELSE IF unique_symbols > 0 THEN 5
                                 ELSE 0,
             position_sizing |-> IF rows = << >> THEN 0
                                 ELSE IF RLt(max_position_pct, RInt(20)) THEN 25
                                 ELSE IF RLt(max_position_pct, RInt(30)) THEN 15
                                 ELSE 5,
             sustainability |-> IF ytd_withdrawn = 0 THEN 25
                                ELSE IF RLe(ytd, RMul(safe_annual, Rat(1, 2))) THEN 25
                                ELSE IF RLe(ytd, safe_annual) THEN 15
                                ELSE IF RLe(ytd, RMul(safe_annual, Rat(3, 2))) THEN 5
                                ELSE 0,
             risk_alignment |-> IF user_risk # RInt(0) THEN 20 ELSE 0]
    IN  [scores |-> scores,
         health_score |-> SumOver(scores, DOMAIN scores)]

\* the portfolios scored: at most one lot of each symbol, some cash, at most
\* one withdrawal, at most a manual price for SCOM
Lots == [Symbols -> {None} \cup {Some([quantity |-> q, purchase_price |-> c]) :
                                    q \in Quantities \ {0}, c \in Prices}]

\* the positions of the lots, in the order of the file
PositionsOf(lots) ==
    LET one(x) == IF lots[x] = None THEN << >>
                  ELSE << PositionDict(x, lots[x][1].quantity,
                                       lots[x][1].purchase_price, MarketOf(x)) >>
    IN  one("AAPL") \o one("SCOM")

Portfolios ==
    {[positions |-> PositionsOf(lots), withdrawals |-> w, cash_balance |-> c,
      manual_prices |-> m] :
        lots \in Lots,
        w \in {<< >>} \cup {<< a >> : a \in 1 .. MaxAmount},
        c \in {0, StartCash},
        m \in {<< >>} \cup {[x \in {"SCOM"} |-> [price |-> v, last_updated |-> 0]] :
                               v \in 1 .. MaxPrice}}

\* investor_profiles.risk_score
RiskScores == {RInt(0), Rat(1, 2), RInt(1)}

\* the position rows of a portfolio with n holdings
RowsOf(invested) ==
    [k \in 1 .. Len(invested) |-> [symbol |-> k, total_invested |-> invested[k]]]

\* a call of calculate_portfolio_health_score; the quote API answers the
\* same to each valuation the call makes
PM_calculate_portfolio_health_score ==
    /\ CanCompute
    /\ \E portfolio \in Portfolios, quote \in Quotes, user_risk_score \in RiskScores :
          fn' = [op |-> "calculate_portfolio_health_score", portfolio |-> portfolio,
                 quote |-> quote, user_risk_score |-> user_risk_score,
                 out |-> calculate_portfolio_health_score(portfolio, quote,
                                                          user_risk_score)]
    /\ UNCHANGED <<ledger_vars, now, cache_vars, rng>>

\* the health score part of a call of get_portfolio_summary
summary_health ==
    /\ CanCompute
    /\ \E n \in 0 .. MaxHoldings, ytd_withdrawn \in 0 .. MaxAmount,
           user_risk \in RiskScores :
          \E invested \in [1 .. n -> 1 .. 2] :
              fn' = [op |-> "get_portfolio_summary", rows |-> RowsOf(invested),
                     ytd_withdrawn |-> ytd_withdrawn, user_risk |-> user_risk,
                     out |-> summary_health_score(RowsOf(invested), ytd_withdrawn,
                                                  user_risk)]
    /\ UNCHANGED <<ledger_vars, now, cache_vars, rng>>

NextHealth ==
    \/ PM_calculate_portfolio_health_score
    \/ summary_health

SpecHealth == Init /\ [][NextHealth]_vars

\* ====================================================== WithdrawalPlanner
\* the result of a call that raised an exception
Raised(exception) == [raised |-> exception]

\* random.gauss(0.07, 0.15) in generator state s: the generator is
\* deterministic, its draw is a function of its state
Gauss(s) == Rat(((s * 2) % RngPeriod) - 2, 2)

\* the generator after k draws
Advance(s, k) == (s + k) % RngPeriod

\* the annual returns random.gauss can give a trial
Returns == {Rat(-3, 2), Rat(-1, 2), Rat(1, 2)}

\* run_monte_carlo, the years of one trial from year on: the return rs[year]
\* is applied, the withdrawal is taken and then grows by 3%; the trial ends
\* when nothing is left. drawn is the number of returns drawn.
RECURSIVE simulate_adding(_, _, _, _, _)
simulate_adding(portfolio, withdrawal, rs, year, years) ==
    IF year > years
    THEN [survived |-> TRUE, portfolio |-> portfolio, drawn |-> year - 1]
    ELSE LET left == RAdd(RMul(portfolio, RAdd(RInt(1), rs[year])), withdrawal)
         IN  IF RLe(left, RInt(0))
             THEN [survived |-> FALSE, portfolio |-> left, drawn |-> year]
             ELSE simulate_adding(left, RMul(withdrawal, Rat(103, 100)), rs,
                                  year + 1, years)

RECURSIVE simulate(_, _, _, _, _)
simulate(portfolio, withdrawal, rs, year, years) ==
    IF year > years
    THEN [survived |-> TRUE, portfolio |-> portfolio, drawn |-> year - 1]
    ELSE LET left == RSub(RMul(portfolio, RAdd(RInt(1), rs[year])), withdrawal)
         IN  IF RLe(left, RInt(0))
             THEN [survived |-> FALSE, portfolio |-> left, drawn |-> year]
             ELSE simulate(left, RMul(withdrawal, Rat(103, 100)), rs, year + 1, years)

\* sorted(values)
RECURSIVE Sorted(_)
Sorted(values) ==
    IF values = << >> THEN << >>
    ELSE LET k == CHOOSE i \in 1 .. Len(values) :
                     \A j \in 1 .. Len(values) : RLe(values[i], values[j])
         IN  << values[k] >> \o
             Sorted([i \in 1 .. Len(values) - 1 |->
                        IF i < k THEN values[i] ELSE values[i + 1]])

\* run_monte_carlo after its loops, given what the trials gave: the success
\* rate, and the median and percentiles of the sorted final values; with
\* simulations <= 0 no trial has run and the success rate or the median raises
monte_carlo_report(simulations, trials) ==
    LET all_results == [sim \in 1 .. simulations |->
                           [survived |-> trials[sim].survived,
                            final_value |-> RMax(RInt(0), trials[sim].portfolio)]]
        successes == Cardinality({sim \in 1 .. simulations : trials[sim].survived})
        final_values == Sorted([sim \in 1 .. simulations |->
                                   all_results[sim].final_value])
        n == Len(final_values)
    IN  IF simulations = 0 THEN Raised("ZeroDivisionError")
        ELSE IF simulations < 0 THEN Raised("IndexError")
        ELSE [raised |-> "",
              simulations |-> simulations,
              success_rate |-> Rat(successes * 100, simulations),
              median_final_value |-> final_values[(n \div 2) + 1],
              worst_case_10th_percentile |-> final_values[(n \div 10) + 1],
              best_case_90th_percentile |-> final_values[((n * 9) \div 10) + 1],
              all_results |-> all_results,
              drawn |-> SumSeq([sim \in 1 .. simulations |-> trials[sim].drawn])]

\* run_monte_carlo, given drawn[sim], the returns random.gauss gives trial sim
run_monte_carlo(starting_portfolio, annual_withdrawal, years, simulations, drawn) ==
    CHOOSE out \in
        {monte_carlo_report(simulations, trials) :
            trials \in {[sim \in 1 .. simulations |->
                            simulate(RInt(starting_portfolio), RInt(annual_withdrawal),
                                     drawn[sim], 1, years)]}} : TRUE

\* the returns the trials sim, sim + 1, ... draw from the generator in state
\* s: each trial draws where the one before it stopped
RECURSIVE DrawnFrom(_, _, _, _, _, _)
DrawnFrom(s, starting_portfolio, annual_withdrawal, years, sim, simulations) ==
    IF sim > simulations THEN << >>
    ELSE LET rs == [year \in 1 .. years |-> Gauss(Advance(s, year - 1))]
             trial == simulate(RInt(starting_portfolio), RInt(annual_withdrawal),
                               rs, 1, years)
         IN  << rs >> \o DrawnFrom(Advance(s, trial.drawn), starting_portfolio,
                                   annual_withdrawal, years, sim + 1, simulations)

\* what is simulated
StartValues == {1, StartCash}
Withdrawn == 0 .. MaxAmount

\* the seeds given to the generator
Seeds == {0, 1}

\* the arguments of the calls of run_monte_carlo
MonteCarloArgs == {1, StartCash} \X (1 .. MaxAmount) \X (1 .. MaxYears) \X (1 .. MaxSims)

\* random.seed(seed), by whoever wants the draws repeated
random_seed ==
    /\ \E seed \in Seeds : rng' = [state |-> seed, seed |-> Some(seed)]
    /\ UNCHANGED <<ledger_vars, now, cache_vars, fn>>

\* random.choice(moods) of get_market_mood: a draw by another user of the
\* generator
random_choice ==
    /\ rng' = [rng EXCEPT !.state = Advance(@, 1)]
    /\ UNCHANGED <<ledger_vars, now, cache_vars, fn>>

\* a call of run_monte_carlo, and then a second call with the same
\* arguments; before is the call before it, seed is the seed the generator
\* was given for this call, if any
MC_run_monte_carlo ==
    /\ fn = NoFn \/ (fn.op = "run_monte_carlo" /\ fn.before = None)
    /\ \E args \in IF fn = NoFn THEN MonteCarloArgs ELSE {fn.args} :
          \E drawn \in {DrawnFrom(rng.state, args[1], args[2], args[3], 1, args[4])} :
          \E out \in {run_monte_carlo(args[1], args[2], args[3], args[4], drawn)} :
              /\ fn' = [op |-> "run_monte_carlo",
                        args |-> args,
                        seed |-> rng.seed,
                        out |-> out,
                        before |-> IF fn = NoFn THEN None
                                   ELSE Some([args |-> fn.args, seed |-> fn.seed,
                                              out |-> fn.out])]
              /\ rng' = [state |-> Advance(rng.state, out.drawn), seed |-> None]
    /\ UNCHANGED <<ledger_vars, now, cache_vars>>

NextMonteCarlo ==
    \/ random_seed
    \/ random_choice
    \/ MC_run_monte_carlo

SpecMonteCarlo == Init /\ [][NextMonteCarlo]_vars

\* two calls of run_monte_carlo that differ in the withdrawal only, whose
\* trials get the same returns from random.gauss
MC_run_monte_carlo_twice ==
    /\ CanCompute
    /\ \E starting_portfolio \in StartValues, more \in Withdrawn, less \in Withdrawn,
           years \in 0 .. MaxYears, simulations \in 1 .. MaxSims :
          /\ less < more
          /\ \E drawn \in [1 .. simulations -> [1 .. years -> Returns]] :
                fn' = [op |-> "run_monte_carlo twice",
                       starting_portfolio |-> starting_portfolio,
                       years |-> years, simulations |-> simulations, drawn |-> drawn,
                       more |-> [annual_withdrawal |-> more,
                                 out |-> run_monte_carlo(starting_portfolio, more,
                                                         years, simulations, drawn)],
                       less |-> [annual_withdrawal |-> less,
                                 out |-> run_monte_carlo(starting_portfolio, less,
                                                         years, simulations, drawn)]]
    /\ UNCHANGED <<ledger_vars, now, cache_vars, rng>>

SpecMonotone == Init /\ [][MC_run_monte_carlo_twice]_vars

\* calculate_with_guardrails: the change since initial_portfolio decides the
\* rate; the division raises when initial_portfolio is 0
calculate_with_guardrails(portfolio_value, initial_portfolio, base_withdrawal) ==
    LET change_percent == Rat(portfolio_value - initial_portfolio, initial_portfolio)
        new_rate == IF RLt(Rat(20, 100), change_percent) THEN Rat(45, 1000)
                    ELSE IF RLt(change_percent, Rat(-15, 100)) THEN Rat(35, 1000)
                    ELSE Rat(4, 100)
        recommended_withdrawal == RMul(RInt(portfolio_value), new_rate)
    IN  IF initial_portfolio = 0 THEN Raised("ZeroDivisionError")
        ELSE [raised |-> "",
              current_value |-> portfolio_value,
              initial_value |-> initial_portfolio,
              change_percent |-> change_percent,
              status |-> IF RLt(Rat(20, 100), change_percent) THEN "increase_allowed"
                         ELSE IF RLt(change_percent, Rat(-15, 100))
                              THEN "decrease_recommended"
                         ELSE "on_track",
              recommended_rate |-> new_rate,
              recommended_annual |-> recommended_withdrawal,
              recommended_monthly |-> RDiv(recommended_withdrawal, RInt(12)),
              base_withdrawal |-> base_withdrawal]

\* the projection that goes on to the last year after the portfolio is depleted
RECURSIVE project_through(_, _, _, _)
project_through(portfolio, withdrawal, year, years) ==
    IF year > years THEN << >>
    ELSE LET left == RSub(RMul(portfolio, Rat(107, 100)), withdrawal)
             next == RMul(withdrawal, Rat(103, 100))
         IN  << [year |-> year, portfolio_value |-> left, withdrawal_amount |-> next,
                 depleted |-> RLe(left, RInt(0))] >>
             \o project_through(left, next, year + 1, years)

\* run_sustainability_projection, the years from year on: 7% is added, the
\* withdrawal is taken and then grows by 3%, until nothing is left
RECURSIVE project(_, _, _, _)
project(portfolio, withdrawal, year, years) ==
    IF year > years THEN << >>
    ELSE LET left == RSub(RMul(portfolio, Rat(107, 100)), withdrawal)
             next == RMul(withdrawal, Rat(103, 100))
         IN  << [year |-> year, portfolio_value |-> left, withdrawal_amount |-> next,
                 depleted |-> RLe(left, RInt(0))] >>
             \o (IF RLe(left, RInt(0)) THEN << >>
                 ELSE project(left, next, year + 1, years))

\* run_sustainability_projection: no year is projected when years <= 0
run_sustainability_projection(starting_portfolio, annual_withdrawal, years) ==
    LET projections == project(RInt(starting_portfolio), RInt(annual_withdrawal), 1, years)
        n == Len(projections)
        flagged == {k \in 1 .. n : projections[k].depleted}
        depletion_year == IF flagged = {} THEN None
                          ELSE Some(projections[CHOOSE k \in flagged :
                                                    \A j \in flagged : k <= j].year)
    IN  [raised |-> "",
         starting_value |-> starting_portfolio,
         initial_withdrawal |-> annual_withdrawal,
         years_projected |-> years,
         success |-> (depletion_year = None \/ depletion_year[1] > years),
         depletion_year |-> depletion_year,
         final_value |-> IF n > 0 THEN projections[n].portfolio_value ELSE RInt(0),
         projections |-> projections]

\* the values the callers pass, the malformed ones with them
AnyValues == -1 .. StartCash
AnyYears == -1 .. MaxYears
AnySims == -1 .. MaxSims

\* a call of calculate_with_guardrails
WP_calculate_with_guardrails ==
    /\ CanCompute
    /\ \E portfolio_value \in AnyValues, initial_portfolio \in AnyValues,
           base_withdrawal \in Withdrawn :
          fn' = [op |-> "calculate_with_guardrails",
                 portfolio_value |-> portfolio_value,
                 initial_portfolio |-> initial_portfolio,
                 base_withdrawal |-> base_withdrawal,
                 out |-> calculate_with_guardrails(portfolio_value, initial_portfolio,
                                                   base_withdrawal)]
    /\ UNCHANGED <<ledger_vars, now, cache_vars, rng>>

\* a call of run_sustainability_projection
WP_run_sustainability_projection ==
    /\ CanCompute
    /\ \E starting_portfolio \in AnyValues, annual_withdrawal \in Withdrawn,
           years \in AnyYears :
          fn' = [op |-> "run_sustainability_projection",
                 starting_portfolio |-> starting_portfolio,
                 annual_withdrawal |-> annual_withdrawal, years |-> years,
                 out |-> run_sustainability_projection(starting_portfolio,
                                                       annual_withdrawal, years)]
    /\ UNCHANGED <<ledger_vars, now, cache_vars, rng>>

\* a call of run_monte_carlo, whatever random.gauss gives the trials
WP_run_monte_carlo ==
    /\ CanCompute
    /\ \E starting_portfolio \in StartValues, annual_withdrawal \in Withdrawn,
           years \in AnyYears, simulations \in AnySims :
          \E drawn \in [1 .. simulations -> [1 .. years -> Returns]] :
              fn' = [op |-> "run_monte_carlo",
                     starting_portfolio |-> starting_portfolio,
                     annual_withdrawal |-> annual_withdrawal, years |-> years,
                     simulations |-> simulations, drawn |-> drawn,
                     out |-> run_monte_carlo(starting_portfolio, annual_withdrawal,
                                             years, simulations, drawn)]
    /\ UNCHANGED <<ledger_vars, now, cache_vars, rng>>

NextPlanner ==
    \/ WP_calculate_with_guardrails
    \/ WP_run_sustainability_projection
    \/ WP_run_monte_carlo

SpecPlanner == Init /\ [][NextPlanner]_vars

\* ========================================================== TaxCalculator
\* UK_TAX_RATES['capital_gains']['annual_allowance']
UK_ANNUAL_ALLOWANCE == 3000
\* UK_TAX_RATES['dividend_tax']['allowance']
UK_DIVIDEND_ALLOWANCE == 500
\* US_TAX_RATES['capital_gains']['threshold_days']
US_THRESHOLD_DAYS == 365

Jurisdictions == {"kenya", "us", "uk", "international"}
TaxpayerStatuses == {"resident", "non_resident"}

\* _calculate_kenya_cgt with no tax from 365 days of holding on
calculate_kenya_cgt_long_term_free(gross_gain, holding_days, taxpayer_status) ==
    LET tax_rate == IF holding_days < US_THRESHOLD_DAYS THEN Rat(5, 100) ELSE RInt(0)
        tax_owed == RMul(RInt(gross_gain), tax_rate)
    IN  [gross_gain |-> RInt(gross_gain), tax_owed |-> tax_owed,
         net_gain |-> RSub(RInt(gross_gain), tax_owed), tax_rate |-> tax_rate,
         holding_period_days |-> holding_days, jurisdiction |-> "kenya",
         taxpayer_status |-> taxpayer_status]

\* _calculate_kenya_cgt: 5% for residents and for non-residents
calculate_kenya_cgt(gross_gain, holding_days, taxpayer_status) ==
    LET tax_rate == Rat(5, 100)
        tax_owed == RMul(RInt(gross_gain), tax_rate)
    IN  [gross_gain |-> RInt(gross_gain), tax_owed |-> tax_owed,
         net_gain |-> RSub(RInt(gross_gain), tax_owed), tax_rate |-> tax_rate,
         holding_period_days |-> holding_days, jurisdiction |-> "kenya",
         taxpayer_status |-> taxpayer_status]

\* _calculate_us_cgt: 15% from 365 days of holding on, 22% before
calculate_us_cgt(gross_gain, holding_days) ==
    LET long_term == holding_days >= US_THRESHOLD_DAYS
        tax_rate == IF long_term THEN Rat(15, 100) ELSE Rat(22, 100)
        tax_owed == RMul(RInt(gross_gain), tax_rate)
    IN  [gross_gain |-> RInt(gross_gain), tax_owed |-> tax_owed,
         net_gain |-> RSub(RInt(gross_gain), tax_owed), tax_rate |-> tax_rate,
         tax_type |-> IF long_term THEN "long_term" ELSE "short_term",
         holding_period_days |-> holding_days, jurisdiction |-> "us"]

\* _calculate_uk_cgt: 10% of what exceeds the annual allowance
calculate_uk_cgt(gross_gain, holding_days) ==
    LET taxable_gain == IF gross_gain - UK_ANNUAL_ALLOWANCE > 0
                        THEN gross_gain - UK_ANNUAL_ALLOWANCE ELSE 0
        tax_rate == Rat(10, 100)
        tax_owed == RMul(RInt(taxable_gain), tax_rate)
    IN  [gross_gain |-> RInt(gross_gain), taxable_gain |-> taxable_gain,
         tax_owed |-> tax_owed,
         net_gain |-> RSub(RInt(gross_gain), tax_owed), tax_rate |-> tax_rate,
         annual_allowance_used |-> IF gross_gain < UK_ANNUAL_ALLOWANCE
                                   THEN gross_gain ELSE UK_ANNUAL_ALLOWANCE,
         holding_period_days |-> holding_days, jurisdiction |-> "uk"]

\* _calculate_international_cgt: 20%
calculate_international_cgt(gross_gain, holding_days) ==
    LET tax_rate == Rat(20, 100)
        tax_owed == RMul(RInt(gross_gain), tax_rate)
    IN  [gross_gain |-> RInt(gross_gain), tax_owed |-> tax_owed,
         net_gain |-> RSub(RInt(gross_gain), tax_owed), tax_rate |-> tax_rate,
         holding_period_days |-> holding_days, jurisdiction |-> "international"]

\* calculate_capital_gains_tax: no tax on a loss, else the tax of the
\* jurisdiction; holding_period_days is (sale_date - purchase_date).days
calculate_capital_gains_tax(purchase_price, sale_price, quantity, holding_period_days, jurisdiction, taxpayer_status) ==
    LET gross_gain == (sale_price - purchase_price) * quantity
    IN  IF gross_gain <= 0
        THEN [gross_gain |-> RInt(gross_gain), tax_owed |-> RInt(0),
              net_gain |-> RInt(gross_gain), tax_rate |-> RInt(0),
              holding_period_days |-> holding_period_days,
              jurisdiction |-> jurisdiction, tax_loss |-> RInt(Abs(gross_gain))]
        ELSE IF jurisdiction = "kenya"
             THEN calculate_kenya_cgt(gross_gain, holding_period_days, taxpayer_status)
        ELSE IF jurisdiction = "us"
             THEN calculate_us_cgt(gross_gain, holding_period_days)
        ELSE IF jurisdiction = "uk"
             THEN calculate_uk_cgt(gross_gain, holding_period_days)
        ELSE calculate_international_cgt(gross_gain, holding_period_days)

\* calculate_dividend_tax: the rate of the jurisdiction on the whole
\* dividend; in the UK nothing up to the allowance
calculate_dividend_tax(dividend_amount, jurisdiction, taxpayer_status) ==
    LET tax_rate == IF jurisdiction = "kenya"
                    THEN (IF taxpayer_status = "resident" THEN Rat(5, 100)
                          ELSE Rat(15, 100))
                    ELSE IF jurisdiction = "us" THEN Rat(15, 100)
                    ELSE IF jurisdiction = "uk" THEN Rat(875, 10000)
                    ELSE Rat(15, 100)
        tax_owed == RMul(RInt(dividend_amount), tax_rate)
    IN  IF jurisdiction = "uk" /\ dividend_amount <= UK_DIVIDEND_ALLOWANCE
        THEN [dividend_amount |-> dividend_amount, tax_owed |-> RInt(0),
              net_dividend |-> RInt(dividend_amount), tax_rate |-> RInt(0),
              jurisdiction |-> jurisdiction]
        ELSE [dividend_amount |-> dividend_amount, tax_owed |-> tax_owed,
              net_dividend |-> RSub(RInt(dividend_amount), tax_owed),
              tax_rate |-> tax_rate, jurisdiction |-> jurisdiction]

\* the prices and dividends taxed: small ones, and ones above the allowances
TaxPrices == Prices \cup {UK_ANNUAL_ALLOWANCE + x : x \in Prices}
Dividends == Amounts \cup {UK_DIVIDEND_ALLOWANCE + x : x \in Amounts}
HoldingDays == {US_THRESHOLD_DAYS - 1, US_THRESHOLD_DAYS}

\* a call of calculate_capital_gains_tax
TC_calculate_capital_gains_tax ==
    /\ CanCompute
    /\ \E purchase_price \in TaxPrices, sale_price \in TaxPrices,
           quantity \in Quantities, holding_period_days \in HoldingDays,
           jurisdiction \in Jurisdictions, taxpayer_status \in TaxpayerStatuses :
          fn' = [op |-> "calculate_capital_gains_tax",
                 purchase_price |-> purchase_price, sale_price |-> sale_price,
                 quantity |-> quantity, jurisdiction |-> jurisdiction,
                 taxpayer_status |-> taxpayer_status,
                 out |-> calculate_capital_gains_tax(purchase_price, sale_price,
                             quantity, holding_period_days, jurisdiction,
                             taxpayer_status)]
    /\ UNCHANGED <<ledger_vars, now, cache_vars, rng>>

\* a call of calculate_dividend_tax
TC_calculate_dividend_tax ==
    /\ CanCompute
    /\ \E dividend_amount \in Dividends, jurisdiction \in Jurisdictions,
           taxpayer_status \in TaxpayerStatuses :
          fn' = [op |-> "calculate_dividend_tax",
                 dividend_amount |-> dividend_amount, jurisdiction |-> jurisdiction,
                 taxpayer_status |-> taxpayer_status,
                 out |-> calculate_dividend_tax(dividend_amount, jurisdiction,
                                                taxpayer_status)]
    /\ UNCHANGED <<ledger_vars, now, cache_vars, rng>>

NextTax ==
    \/ TC_calculate_capital_gains_tax
    \/ TC_calculate_dividend_tax

SpecTax == Init /\ [][NextTax]_vars

\* ====================================================== portfolio context
\* the share above which a holding is a concentration
CONCENTRATION_PERCENT == 60

\* _summarize_positions: the rows with a positive quantity, each with its
\* current value
summarize_positions(positions_raw) ==
    LET kept == SelectSeq(positions_raw, LAMBDA pos : pos.total_quantity > 0)
    IN  [k \in 1 .. Len(kept) |->
            [symbol |-> kept[k].symbol,
             total_quantity |-> kept[k].total_quantity,
             current_price |-> kept[k].current_price,
             current_value |-> kept[k].total_quantity * kept[k].current_price]]

\* value / total * 100, and 0 when the total is not positive
PercentOf(value, total) == IF total > 0 THEN Rat(value * 100, total) ELSE RInt(0)

\* _build_allocation: each holding's share of the total value (of the value
\* itself when the total is not positive), and the share of the cash
build_allocation(holdings, total_portfolio_value, cash) ==
    LET denom == IF total_portfolio_value > 0 THEN total_portfolio_value ELSE 1
    IN  [k \in 1 .. Len(holdings) |->
            [symbol |-> holdings[k].symbol, value |-> holdings[k].current_value,
             percent |-> Rat(holdings[k].current_value * 100, denom)]]
        \o (IF cash > 0
            THEN << [symbol |-> "CASH", value |-> cash,
                     percent |-> Rat(cash * 100, denom)] >>
            ELSE << >>)

\* the first entry with the largest percent
Largest(allocation) ==
    CHOOSE k \in 1 .. Len(allocation) :
        /\ \A j \in 1 .. Len(allocation) : RLe(allocation[j].percent, allocation[k].percent)
        /\ \A j \in 1 .. k - 1 : RLt(allocation[j].percent, allocation[k].percent)

\* the alert for the holding a, the largest one
concentration_alert(a, total_value) ==
    [symbol |-> a.symbol,
     current_percent |-> a.percent,
     target_percent |-> CONCENTRATION_PERCENT,
     suggested_sell_amount |->
         RMul(RInt(total_value),
              RDiv(RSub(a.percent, RInt(CONCENTRATION_PERCENT)), RInt(100)))]

\* _detect_concentration: no alert without a positive total or without a
\* holding; else an alert when the largest holding that is not the cash has
\* more than 60%
detect_concentration(allocation, total_value) ==
    LET filtered == SelectSeq(allocation, LAMBDA a : a.symbol # "CASH")
    IN  IF total_value <= 0 \/ allocation = << >> \/ filtered = << >> THEN None
        ELSE IF RLe(filtered[Largest(filtered)].percent, RInt(CONCENTRATION_PERCENT))
             THEN None
        ELSE Some(concentration_alert(filtered[Largest(filtered)], total_value))

\* _build_risk_metrics, its equity_percent and cash_percent: the values of
\* all the entries of the allocation are summed as the equity
build_risk_metrics(allocation, total_value, cash) ==
    LET equity_value == SumSeq([k \in 1 .. Len(allocation) |-> allocation[k].value])
    IN  [equity_percent |-> Round1(PercentOf(equity_value, total_value)),
         cash_percent |-> Round1(PercentOf(cash, total_value))]

\* _build_local_context: the valuation of the rows and the alert
build_local_context(positions_raw, cash) ==
    LET holdings == summarize_positions(positions_raw)
        total_portfolio_value ==
            cash + SumSeq([k \in 1 .. Len(holdings) |-> holdings[k].current_value])
        allocation == build_allocation(holdings, total_portfolio_value, cash)
    IN  [portfolio_value |-> total_portfolio_value,
         cash_balance |-> cash,
         allocation |-> allocation,
         concentration_alert |-> detect_concentration(allocation, total_portfolio_value),
         risk_metrics |-> build_risk_metrics(allocation, total_portfolio_value, cash)]

\* the portfolio fallback of chat: every row is valued, the allocation has
\* no entry for the cash, the largest entry is alerted above 60%
chat_portfolio_fallback(positions_rows, cash) ==
    LET value(k) == positions_rows[k].total_quantity * positions_rows[k].current_price
        total_portfolio_value ==
            cash + SumSeq([k \in 1 .. Len(positions_rows) |-> value(k)])
        allocation == [k \in 1 .. Len(positions_rows) |->
                          [symbol |-> positions_rows[k].symbol, value |-> value(k),
                           percent |-> PercentOf(value(k), total_portfolio_value)]]
    IN  [portfolio_value |-> total_portfolio_value,
         cash_balance |-> cash,
         allocation |-> allocation,
         concentration_alert |->
             IF allocation # << >>
                /\ RLt(RInt(CONCENTRATION_PERCENT), allocation[Largest(allocation)].percent)
             THEN Some(concentration_alert(allocation[Largest(allocation)],
                                           total_portfolio_value))
             ELSE None]

\* build_local_portfolio_context: the holdings with a positive quantity are
\* valued and allocated; concentration_alert is None
build_local_portfolio_context(positions_raw, cash) ==
    LET fallback_positions == summarize_positions(positions_raw)
        total_portfolio_value ==
            cash + SumSeq([k \in 1 .. Len(fallback_positions) |->
                                      fallback_positions[k].current_value])
    IN  [portfolio_value |-> total_portfolio_value,
         cash_balance |-> cash,
         allocation |-> [k \in 1 .. Len(fallback_positions) |->
                            [symbol |-> fallback_positions[k].symbol,
                             value |-> fallback_positions[k].current_value,
                             percent |-> PercentOf(fallback_positions[k].current_value,
                                                   total_portfolio_value)]],
         concentration_alert |-> None]

\* the rows valued: one of each symbol, with its quantity and its price
ValuedRows ==
    {<< [symbol |-> "AAPL", total_quantity |-> q1, current_price |-> p1],
        [symbol |-> "SCOM", total_quantity |-> q2, current_price |-> p2] >> :
        q1 \in Quantities, p1 \in Prices, q2 \in Quantities, p2 \in Prices}

\* a call of _build_local_context
PC_build_local_context ==
    /\ CanCompute
    /\ \E rows \in ValuedRows, cash \in 0 .. StartCash :
          fn' = [op |-> "_build_local_context", rows |-> rows, cash |-> cash,
                 out |-> build_local_context(rows, cash)]
    /\ UNCHANGED <<ledger_vars, now, cache_vars, rng>>

\* the portfolio fallback of a call of chat
chat_fallback ==
    /\ CanCompute
    /\ \E rows \in ValuedRows, cash \in 0 .. StartCash :
          fn' = [op |-> "chat", rows |-> rows, cash |-> cash,
                 out |-> chat_portfolio_fallback(rows, cash)]
    /\ UNCHANGED <<ledger_vars, now, cache_vars, rng>>

\* a call of build_local_portfolio_context
SV_build_local_portfolio_context ==
    /\ CanCompute
    /\ \E rows \in ValuedRows, cash \in 0 .. StartCash :
          fn' = [op |-> "build_local_portfolio_context", rows |-> rows, cash |-> cash,
                 out |-> build_local_portfolio_context(rows, cash)]
    /\ UNCHANGED <<ledger_vars, now, cache_vars, rng>>

NextContext ==
    \/ PC_build_local_context
    \/ chat_fallback
    \/ SV_build_local_portfolio_context

SpecContext == Init /\ [][NextContext]_vars

\* ========================================================= event detector
PRIORITY_CRITICAL == "critical"
PRIORITY_HIGH == "high"
PRIORITY_MEDIUM == "medium"
PRIORITY_LOW == "low"

\* an alert of a detector about a symbol
Event(type, priority, symbol) == [type |-> type, priority |-> priority, symbol |-> symbol]

\* an alert of _detect_concentration_risk, which has no symbol
PortfolioEvent(type, priority) == [type |-> type, priority |-> priority]

\* the events f gives for each position, in the order of the positions
ForEach(positions_list, f(_)) ==
    LET RECURSIVE from(_)
        from(k) == IF k > Len(positions_list) THEN << >>
                   ELSE f(positions_list[k]) \o from(k + 1)
    IN  from(1)

\* _detect_price_movements: up more than 20% is large_gain, down more than
\* 15% is large_loss
detect_price_movements(positions_list) ==
    LET one(pos) ==
            IF pos.average_cost > 0
            THEN IF (pos.current_price - pos.average_cost) * 100 > 20 * pos.average_cost
                 THEN << Event("large_gain", PRIORITY_HIGH, pos.symbol) >>
                 ELSE IF (pos.current_price - pos.average_cost) * 100 < -15 * pos.average_cost
                 THEN << Event("large_loss", PRIORITY_MEDIUM, pos.symbol) >>
                 ELSE << >>
            ELSE << >>
    IN  ForEach(positions_list, one)

\* the value of every position
ValueOfPositions(positions_list) ==
    SumSeq([k \in 1 .. Len(positions_list) |->
               positions_list[k].total_quantity * positions_list[k].current_price])

\* _detect_risk_drift: the first position with the largest share, when that
\* share is above what the risk score (in tenths) accepts
detect_risk_drift(user_risk_tenths, positions_list) ==
    LET total_value == ValueOfPositions(positions_list)
        value(k) == positions_list[k].total_quantity * positions_list[k].current_price
        max_acceptable == IF user_risk_tenths < 3 THEN 15
                          ELSE IF user_risk_tenths < 6 THEN 25 ELSE 35
        largest == CHOOSE k \in 1 .. Len(positions_list) :
                       /\ \A j \in 1 .. Len(positions_list) : value(j) <= value(k)
                       /\ \A j \in 1 .. k - 1 : value(j) < value(k)
    IN  IF total_value = 0 THEN << >>
        ELSE IF value(largest) * 100 > max_acceptable * total_value
             THEN << Event("risk_drift", PRIORITY_HIGH, positions_list[largest].symbol) >>
             ELSE << >>

\* _detect_rebalancing_opportunities: every position above 30% of the value
detect_rebalancing_opportunities(positions_list) ==
    LET total_value == ValueOfPositions(positions_list)
        one(pos) == IF pos.total_quantity * pos.current_price * 100 > 30 * total_value
                    THEN << Event("rebalancing_needed", PRIORITY_MEDIUM, pos.symbol) >>
                    ELSE << >>
    IN  IF total_value = 0 THEN << >> ELSE ForEach(positions_list, one)

\* _detect_concentration_risk: one position, or fewer than five
detect_concentration_risk(positions_list) ==
    IF Len(positions_list) = 1
    THEN << PortfolioEvent("concentration_risk", PRIORITY_HIGH) >>
    ELSE IF Len(positions_list) < 5
         THEN << PortfolioEvent("low_diversification", PRIORITY_MEDIUM) >>
         ELSE << >>

\* _detect_tax_opportunities: holding_days is the age of the first entry
\* (None without an entry or a date), days_to_year_end the days to Dec 31
detect_tax_opportunities(positions_list, days_to_year_end) ==
    LET one(pos) ==
            IF pos.holding_days = None THEN << >>
            ELSE LET unrealized_gain ==
                         (pos.current_price - pos.average_cost) * pos.total_quantity
                     holding_days == pos.holding_days[1]
                 IN  (IF 0 < unrealized_gain /\ 335 <= holding_days /\ holding_days < 365
                      THEN << Event("tax_optimization_hold", PRIORITY_HIGH, pos.symbol) >>
                      ELSE IF unrealized_gain < -1000
                      THEN << Event("tax_loss_harvesting", PRIORITY_MEDIUM, pos.symbol) >>
                      ELSE << >>)
                     \o (IF 0 < days_to_year_end /\ days_to_year_end <= 45
                            /\ unrealized_gain < -500
                         THEN << Event("year_end_tax_planning", PRIORITY_HIGH, pos.symbol) >>
                         ELSE << >>)
    IN  ForEach(positions_list, one)

\* _detect_profit_taking_opportunities: up more than 50%
detect_profit_taking_opportunities(positions_list) ==
    LET one(pos) ==
            IF pos.average_cost > 0
               /\ (pos.current_price - pos.average_cost) * 100 > 50 * pos.average_cost
            THEN << Event("profit_taking", PRIORITY_MEDIUM, pos.symbol) >>
            ELSE << >>
    IN  ForEach(positions_list, one)

\* _detect_stop_loss_triggers: down more than 25%
detect_stop_loss_triggers(positions_list) ==
    LET one(pos) ==
            IF pos.average_cost > 0
               /\ (pos.current_price - pos.average_cost) * 100 < -25 * pos.average_cost
            THEN << Event("stop_loss_alert", PRIORITY_HIGH, pos.symbol) >>
            ELSE << >>
    IN  ForEach(positions_list, one)

\* priority_order.get(e['priority'], 999)
priority_order(priority) ==
    CASE priority = PRIORITY_CRITICAL -> 0
      [] priority = PRIORITY_HIGH -> 1
      [] priority = PRIORITY_MEDIUM -> 2
      [] priority = PRIORITY_LOW -> 3
      [] OTHER -> 999

\* an insertion that puts an event before the events of its own priority
insert_before_equal(sorted_events, e) ==
    LET ahead == SelectSeq(sorted_events,
                     LAMBDA x : priority_order(x.priority) < priority_order(e.priority))
        behind == SelectSeq(sorted_events,
                      LAMBDA x : priority_order(x.priority) >= priority_order(e.priority))
    IN  ahead \o << e >> \o behind

\* list.sort inserts an event behind the events whose key is not larger
insert_event(sorted_events, e) ==
    LET ahead == SelectSeq(sorted_events,
                     LAMBDA x : priority_order(x.priority) <= priority_order(e.priority))
        behind == SelectSeq(sorted_events,
                      LAMBDA x : priority_order(x.priority) > priority_order(e.priority))
    IN  ahead \o << e >> \o behind

\* events.sort(key=...): the stable sort of the list by priority_order
RECURSIVE sort_events(_)
sort_events(events) ==
    IF events = << >> THEN << >>
    ELSE insert_event(sort_events(SubSeq(events, 1, Len(events) - 1)), events[Len(events)])

\* what the detectors of detect_all_events produce, in the order of their calls
detected_events(user_risk_tenths, positions_list, days_to_year_end) ==
    detect_price_movements(positions_list)
    \o detect_risk_drift(user_risk_tenths, positions_list)
    \o detect_rebalancing_opportunities(positions_list)
    \o detect_concentration_risk(positions_list)
    \o detect_tax_opportunities(positions_list, days_to_year_end)
    \o detect_profit_taking_opportunities(positions_list)
    \o detect_stop_loss_triggers(positions_list)

\* detect_all_events: the events of the detectors, sorted by priority
detect_all_events(user_risk_tenths, positions_list, days_to_year_end) ==
    sort_events(detected_events(user_risk_tenths, positions_list, days_to_year_end))

\* a position as the detectors read it
EventPositions(symbol) ==
    [symbol : {symbol}, total_quantity : {1, 1200}, current_price : Prices,
     average_cost : Prices, holding_days : {None, Some(340), Some(400)}]

\* the lists of positions: none, one, or one of each symbol
EventPositionLists ==
    {<< >>} \cup {<< a >> : a \in EventPositions("AAPL")}
            \cup {<< a, b >> : a \in EventPositions("AAPL"), b \in EventPositions("SCOM")}

\* a call of detect_all_events
ED_detect_all_events ==
    /\ CanCompute
    /\ \E positions_list \in EventPositionLists, user_risk_tenths \in {2, 5, 8},
          days_to_year_end \in {30, 100} :
          \E produced \in {detected_events(user_risk_tenths, positions_list,
                                            days_to_year_end)} :
              fn' = [op |-> "detect_all_events", positions |-> positions_list,
                     produced |-> produced, out |-> sort_events(produced)]
    /\ UNCHANGED <<ledger_vars, now, cache_vars, rng>>

SpecEvents == Init /\ [][ED_detect_all_events]_vars

\* ================================================= one lot, valued and sold
\* calculate_position_pl: the profit of one entry at a price
calculate_position_pl(position, current_price) ==
    LET cost_basis == position.quantity * position.purchase_price
        current_value == position.quantity * current_price
        pl_amount == current_value - cost_basis
    IN  [symbol |-> position.symbol, quantity |-> position.quantity,
         purchase_price |-> position.purchase_price, current_price |-> current_price,
         cost_basis |-> cost_basis, current_value |-> current_value,
         pl_amount |-> pl_amount,
         pl_percent |-> IF cost_basis > 0 THEN Rat(pl_amount * 100, cost_basis) ELSE RInt(0),
         is_gain |-> pl_amount >= 0]

\* sell_position run from its first statement to its last on the given rows
\* and cash, every statement sent to the store succeeding
sell_position_run(rows, cash, symbol, quantity_to_sell, sell_price) ==
    LET pos == SelectFrom(rows, symbol)
        current_quantity == pos.total_quantity
        sale_proceeds == quantity_to_sell * sell_price
        cost_basis == RMul(RInt(quantity_to_sell), pos.average_cost)
        realized_pl == RSub(RInt(sale_proceeds), cost_basis)
        new_quantity == current_quantity - quantity_to_sell
    IN  IF pos = NoRow \/ quantity_to_sell > current_quantity
        THEN [success |-> FALSE, cash_balance |-> cash, positions |-> rows]
        ELSE [success |-> TRUE,
              cash_balance |-> cash + sale_proceeds,
              realized_pl |-> realized_pl,
              positions |->
                  IF quantity_to_sell >= current_quantity
                  THEN SelectSeq(rows, LAMBDA row : row.id # pos.id)
                  ELSE [k \in 1 .. Len(rows) |->
                           IF rows[k].id = pos.id
                           THEN [rows[k] EXCEPT
                                    !.total_quantity = new_quantity,
                                    !.total_invested =
                                        RMul(pos.total_invested,
                                             Rat(new_quantity, current_quantity))]
                           ELSE rows[k]]]

\* the lots bought, the prices they are valued and sold at, the days held
LotQuantities == {5, 10}
LotCosts == {100, 150}
LotPrices == {150, 270}
LotDays == HoldingDays \cup {0, 30}

\* the lot is bought and valued at a price
lot_valued ==
    /\ CanCompute
    /\ \E quantity \in LotQuantities, purchase_price \in LotCosts, price \in LotPrices :
          fn' = [op |-> "lot", stage |-> "valued",
                 quantity |-> quantity, purchase_price |-> purchase_price, price |-> price,
                 rows |-> << NewPositionRow(1, "AAPL", quantity, purchase_price) >>,
                 pl |-> calculate_position_pl(
                            [symbol |-> "AAPL", quantity |-> quantity,
                             purchase_price |-> purchase_price], price)]
    /\ UNCHANGED <<ledger_vars, now, cache_vars, rng>>

\* a quantity of the lot is sold at the price it was valued at
lot_sold ==
    /\ fn.op = "lot" /\ fn.stage = "valued"
    /\ \E quantity_to_sell \in LotQuantities :
          \E sale \in {sell_position_run(fn.rows, 0, "AAPL", quantity_to_sell, fn.price)} :
              fn' = [op |-> "lot", stage |-> "sold",
                     quantity |-> fn.quantity, purchase_price |-> fn.purchase_price,
                     price |-> fn.price, pl |-> fn.pl,
                     sold |-> quantity_to_sell, sale |-> sale]
    /\ UNCHANGED <<ledger_vars, now, cache_vars, rng>>

\* the tax of the sale is computed
lot_taxed ==
    /\ fn.op = "lot" /\ fn.stage = "sold" /\ fn.sale.success
    /\ \E holding_period_days \in LotDays, jurisdiction \in Jurisdictions,
           taxpayer_status \in TaxpayerStatuses :
          fn' = [op |-> "lot", stage |-> "taxed",
                 quantity |-> fn.quantity, purchase_price |-> fn.purchase_price,
                 price |-> fn.price, pl |-> fn.pl, sold |-> fn.sold, sale |-> fn.sale,
                 jurisdiction |-> jurisdiction,
                 tax |-> calculate_capital_gains_tax(fn.purchase_price, fn.price, fn.sold,
                             holding_period_days, jurisdiction, taxpayer_status)]
    /\ UNCHANGED <<ledger_vars, now, cache_vars, rng>>

NextLot ==
    \/ lot_valued
    \/ lot_sold
    \/ lot_taxed

SpecLot == Init /\ [][NextLot]_vars

\* ============================================================= stress test
\* the default crash_scenarios, and one that loses everything; the crash is
\* in percent
DefaultCrashScenarios ==
    << <<"Moderate Correction", -20>>, <<"Severe Crash", -40>>, <<"Extreme Crisis", -50>> >>
CrashScenario == {DefaultCrashScenarios[k] : k \in 1 .. 3} \cup {<<"Wipe-out", -100>>}

\* the verdict with the thresholds included in the harsher class
verdict_inclusive(new_withdrawal_rate) ==
    IF RLe(Rat(6, 100), new_withdrawal_rate) THEN "Unsustainable"
    ELSE IF RLe(Rat(5, 100), new_withdrawal_rate) THEN "Risky"
    ELSE "Sustainable"

\* the status of a scenario: above 6% unsustainable, above 5% risky
verdict(new_withdrawal_rate) ==
    IF RLt(Rat(6, 100), new_withdrawal_rate) THEN "Unsustainable"
    ELSE IF RLt(Rat(5, 100), new_withdrawal_rate) THEN "Risky"
    ELSE "Sustainable"

\* one scenario of stress_test; the amount of recommended_action is the one
\* its text names, formatted without decimals
stress_scenario(portfolio_value, annual_withdrawal, scenario) ==
    LET crashed_value == RMul(RInt(portfolio_value), Rat(100 + scenario[2], 100))
        new_withdrawal_rate == IF RLt(RInt(0), crashed_value)
                               THEN RDiv(RInt(annual_withdrawal), crashed_value)
                               ELSE RInt(999)
        status == verdict(new_withdrawal_rate)
    IN  [scenario |-> scenario[1],
         crash_percent |-> scenario[2],
         portfolio_after_crash |-> crashed_value,
         withdrawal_rate_after_crash |-> RMul(new_withdrawal_rate, RInt(100)),
         status |-> status,
         recommended_action |->
             IF status = "Sustainable" THEN None
             ELSE Some(Round0(RMul(crashed_value, Rat(4, 100))))]

\* stress_test: one result for each scenario, in the order given; the
\* default scenarios when none are given
stress_test(portfolio_value, annual_withdrawal, crash_scenarios) ==
    LET given == IF crash_scenarios = None THEN DefaultCrashScenarios
                 ELSE crash_scenarios[1]
    IN  [original_portfolio |-> portfolio_value,
         annual_withdrawal |-> annual_withdrawal,
         scenarios |-> [k \in 1 .. Len(given) |->
                           stress_scenario(portfolio_value, annual_withdrawal, given[k])]]

\* the portfolios and withdrawals tested: rates of 5%, 6% and 7% after a
\* crash of 20% occur
StressValues == {0, 100, 125}
StressWithdrawals == {0, 5, 6, 7}
StressScenarios ==
    {None, Some(<< >>)} \cup {Some(<< a >>) : a \in CrashScenario}
                      \cup {Some(<< a, b >>) : a \in CrashScenario, b \in CrashScenario}

\* a call of stress_test
WP_stress_test ==
    /\ CanCompute
    /\ \E portfolio_value \in StressValues, annual_withdrawal \in StressWithdrawals,
           crash_scenarios \in StressScenarios :
          fn' = [op |-> "stress_test", portfolio_value |-> portfolio_value,
                 annual_withdrawal |-> annual_withdrawal,
                 given |-> IF crash_scenarios = None THEN DefaultCrashScenarios
                           ELSE crash_scenarios[1],
                 out |-> stress_test(portfolio_value, annual_withdrawal, crash_scenarios)]
    /\ UNCHANGED <<ledger_vars, now, cache_vars, rng>>

SpecStress == Init /\ [][WP_stress_test]_vars

\* ================================================================= properties
Done(i) == reqs[i].pc = "done"
Ok(i) == Done(i) /\ reqs[i].status = "ok"

\* what a successful request adds to the cash balance
Delta(r) ==
    CASE r.op = "deposit" -> r.amount
      [] r.op = "withdraw" -> 0 - r.amount
      [] r.op = "buy" -> 0 - r.quantity * r.price
      [] r.op = "sell" -> r.quantity * r.price
      [] OTHER -> 0

\* C1: a summary never reads the ledger with one of the two writes of a
\* buy or a sell applied and the other not: for every finished summary and
\* every successful buy or sell, the summary read the cash after the cash
\* write exactly if it read the positions after the position write.
C1_ReadsSeeWholeMutations ==
    \A i \in DOMAIN reqs, j \in DOMAIN reqs :
        (reqs[i].op = "summary" /\ Done(i) /\ reqs[j].op \in {"buy", "sell"} /\ Ok(j))
        => ((j \in reqs[i].saw_cash) <=> (j \in reqs[i].saw_pos))

\* C2: when all the requests of a behaviour (two or more) have succeeded,
\* the cash balance is the starting balance plus what each of them adds,
\* which is what applying them one after the other gives.
C2_MutationsSerialized ==
    (n_calls >= 2 /\ DOMAIN reqs = 1 .. n_calls /\ \A i \in DOMAIN reqs : Ok(i))
    => cash_balance = StartCash + SumSeq([i \in 1 .. n_calls |-> Delta(reqs[i])])

\* C4: a request that ended in an error (a refused check or a failed store
\* statement) left cash, positions and withdrawals as they were before it.
C4_AllOrNothing ==
    \A i \in DOMAIN reqs :
        (Done(i) /\ reqs[i].status # "ok") => Snapshot = reqs[i].before

\* C5: after any sequence of buys every position row has total_quantity >= 0,
\* total_quantity and total_invested equal to the sums over its entries, and
\* average_cost = total_invested / total_quantity.
C5_LotArithmetic ==
    \A k \in 1 .. Len(positions) :
        LET row == positions[k] IN
        /\ row.total_quantity >= 0
        /\ row.total_quantity = SumSeq(EntryQuantities(row.entries))
        /\ row.total_invested = RInt(SumSeq(EntryCosts(row.entries)))
        /\ row.total_quantity # 0
              => row.average_cost = RDiv(row.total_invested, RInt(row.total_quantity))

\* the rows a sale of quantity q of row pos must leave
RowsAfterSale(rows, pos, q) ==
    IF q = pos.total_quantity
    THEN SelectSeq(rows, LAMBDA row : row.id # pos.id)
    ELSE [k \in 1 .. Len(rows) |->
            IF rows[k].id = pos.id
            THEN [rows[k] EXCEPT
                    !.total_quantity = pos.total_quantity - q,
                    !.total_invested =
                        RDiv(RMul(pos.total_invested, RInt(pos.total_quantity - q)),
                             RInt(pos.total_quantity))]
            ELSE rows[k]]

\* C6: a sale of 0 < q <= total_quantity is not refused, and every sale that
\* succeeds reports realized gain q * (p - average_cost), leaves the cash
\* q * p higher, removes the position when q = total_quantity and otherwise
\* leaves it with total_quantity - q and total_invested scaled by
\* remaining / before.
C6_SellConservation ==
    \A i \in DOMAIN reqs :
        LET r == reqs[i]
            pos == SelectFrom(r.before.positions, r.symbol)
        IN  (r.op = "sell" /\ Done(i)) =>
            /\ (pos # NoRow /\ 0 < r.quantity /\ r.quantity <= pos.total_quantity)
                  => r.status # "rejected"
            /\ r.status = "ok" =>
                  /\ pos # NoRow /\ r.quantity <= pos.total_quantity
                  /\ r.realized_pl =
                        RMul(RInt(r.quantity), RSub(RInt(r.price), pos.average_cost))
                  /\ cash_balance = r.before.cash_balance + r.quantity * r.price
                  /\ positions = RowsAfterSale(r.before.positions, pos, r.quantity)
                  /\ withdrawals = r.before.withdrawals

C6_PartialSale ==
    \E i \in DOMAIN reqs :
        /\ reqs[i].op = "sell" /\ Ok(i)
        /\ 0 < reqs[i].quantity
        /\ reqs[i].quantity < reqs[i].pos.total_quantity
        /\ reqs[i].pos.average_cost.d # 1

\* C7: a sale of more than the position's total_quantity, or of a symbol
\* that is not held, is refused and changes neither cash nor positions.
C7_OversellRefused ==
    \A i \in DOMAIN reqs :
        LET r == reqs[i]
            pos == SelectFrom(r.before.positions, r.symbol)
        IN  (r.op = "sell" /\ (pos = NoRow \/ r.quantity > pos.total_quantity)) =>
            /\ Snapshot = r.before
            /\ Done(i) => r.status = "rejected"

C7_OversellSeen ==
    \E i \in DOMAIN reqs :
        /\ reqs[i].op = "sell" /\ Done(i) /\ reqs[i].status = "rejected"
        /\ SelectFrom(reqs[i].before.positions, reqs[i].symbol) # NoRow
        /\ reqs[i].quantity > SelectFrom(reqs[i].before.positions, reqs[i].symbol).total_quantity

\* C9: a buy with quantity <= 0 or price <= 0 is refused and changes nothing.
C9_NonPositiveLotRefused ==
    \A i \in DOMAIN reqs :
        (reqs[i].op = "buy" /\ Done(i) /\ (reqs[i].quantity <= 0 \/ reqs[i].price <= 0))
        => (reqs[i].status = "rejected" /\ Snapshot = reqs[i].before)

\* C3: when the objects of two different users have each applied a mutation
\* and saved it, the file holds both users' portfolios as their objects
\* hold them.
Mutators == {"add_position", "add_withdrawal", "update_manual_price"}

C3_UsersDoNotInterfere ==
    \A i \in Insts, j \in Insts :
        (/\ pm[i].pc = "ready" /\ pm[j].pc = "ready"
         /\ pm[i].user_id # pm[j].user_id
         /\ pm[i].call.op \in Mutators /\ pm[j].call.op \in Mutators)
        => (db[pm[i].user_id] = pm[i].portfolio /\ db[pm[j].user_id] = pm[j].portfolio)

\* C8: a withdrawal of more than the cash fails and records nothing, and a
\* recorded withdrawal comes with the cash reduced by its amount.
C8_WithdrawalNeedsCash ==
    \A i \in Insts :
        pm[i].call.op = "add_withdrawal" =>
            /\ pm[i].call.amount > pm[i].call.before.cash_balance
                  => (~pm[i].call.success
                      /\ pm[i].portfolio.withdrawals = pm[i].call.before.withdrawals)
            /\ pm[i].portfolio.withdrawals # pm[i].call.before.withdrawals
                  => pm[i].portfolio.cash_balance
                       = pm[i].call.before.cash_balance - pm[i].call.amount

\* the holding says that its price could not be resolved
PriceUnavailable(h) == "price_unavailable" \in DOMAIN h /\ h.price_unavailable

\* C10: in a valuation every symbol whose price could not be resolved is
\* still a holding, valued at its cost and marked price-unavailable, and
\* every symbol whose price was resolved is a holding valued at that price.
C10_FailedPriceKeepsHolding ==
    \A i \in Insts :
        pm[i].call.op = "calculate_total_portfolio" =>
            \A x \in get_unique_symbols(pm[i].portfolio) :
                LET r == pm[i].result
                    price == get_current_price(pm[i].portfolio, x, MarketOf(x), r.quote)
                    ps == get_positions_by_symbol(pm[i].portfolio, x)
                IN  /\ x \in DOMAIN r.holdings
                    /\ price = None
                          => (PriceUnavailable(r.holdings[x])
                              /\ r.holdings[x].current_value = TotalCostBasis(ps))
                    /\ price # None
                          => r.holdings[x].current_value = TotalQuantity(ps) * price[1]

\* the holding tells the caller that its price is stale
FlaggedStale(h) == "stale" \in DOMAIN h /\ h.stale

\* C11: a valuation that uses a manual price set more than 24 hours before
\* it flags the symbol as stale, and after update_manual_price the symbol
\* needs no price update for the next 24 hours.
C11_StaleManualPriceFlagged ==
    \A i \in Insts :
        /\ pm[i].call.op = "calculate_total_portfolio" =>
              \A x \in DOMAIN pm[i].result.holdings :
                  (/\ MarketOf(x) = "NSE"
                   /\ pm[i].call.now - pm[i].portfolio.manual_prices[x].last_updated > StaleAfter)
                  => FlaggedStale(pm[i].result.holdings[x])
        /\ (/\ pm[i].call.op = "update_manual_price"
            /\ now - pm[i].portfolio.manual_prices[pm[i].call.symbol].last_updated <= StaleAfter)
              => ~needs_price_update(pm[i].portfolio, pm[i].call.symbol, now)

\* C12: a reader of a cache never fails, and the NSE price it is given from
\* the cache is the one the expiry it compared with was stored for.
C12_CacheReadersSafe ==
    \A t \in Threads :
        /\ ~thr[t].failed
        /\ (thr[t].op = "fetch_nse_price" /\ thr[t].pc = "done" /\ thr[t].saw # None)
              => thr[t].result[1].by = thr[t].saw[1].by

\* a finished news request was answered from the cache
FromCache(t) == thr[t].result[1].source = "cache"

\* C13: a news request is answered from the cache, without a provider call,
\* exactly when the entry it found for the symbol is younger than the TTL;
\* otherwise the providers are called and the entry becomes the fresh result
\* stamped with the time of the request.
C13_NewsAnswers ==
    \A t \in Threads :
        (thr[t].op = "fetch_news" /\ thr[t].pc = "done") =>
            /\ FromCache(t) <=> ~thr[t].called
            /\ FromCache(t) <=>
                  (thr[t].saw # None /\ thr[t].t0 - thr[t].saw[1].timestamp < NEWS_TTL)
            /\ FromCache(t) =>
                  /\ thr[t].result[1].articles = thr[t].saw[1].data.articles
                  /\ thr[t].result[1].fetched_at = thr[t].saw[1].data.fetched_at

C13_NewsStores ==
    \A t \in Threads :
        (thr[t].op = "fetch_news" /\ thr[t].pc # "done" /\ thr'[t].pc = "done"
         /\ ~FromCache(t)')
        => /\ thr[t].called
           /\ news_cache'[thr[t].key] =
                 [timestamp |-> thr[t].t0, data |-> thr[t].result[1], summary |-> None]
           /\ \A k \in DOMAIN news_cache \ {thr[t].key} : news_cache'[k] = news_cache[k]

C13_NewsTTL == [](C13_NewsAnswers) /\ [][C13_NewsStores]_vars

\* a request that found the entry stored by an earlier one as old as the TTL
\* and replaced it
C13_EntryExpired ==
    \E t \in Threads :
        /\ thr[t].op = "fetch_news" /\ thr[t].pc = "done" /\ ~FromCache(t)
        /\ thr[t].saw # None /\ thr[t].t0 - thr[t].saw[1].timestamp = NEWS_TTL
        /\ news_cache[thr[t].key].timestamp = thr[t].t0

\* C14: a valuation that follows another valuation of the same object, with no
\* change of the ledger in between and the same prices from the quote API,
\* returns what the first one returned, and leaves positions, cash,
\* withdrawals and manual prices as they were
C14_ValuationIdempotent ==
    \A i \in Insts :
        pm[i].call.op = "calculate_total_portfolio" =>
            /\ pm[i].portfolio = pm[i].call.before
            /\ pm[i].prev.quote = pm[i].result.quote => pm[i].result = pm[i].prev

\* the score is one of 0 .. hi
InScore(x, hi) == RLe(RInt(0), x) /\ RLe(x, RInt(hi))

\* C15: each sub-score of a health score is in [0, 25] and the total is in
\* [0, 100], for the score of calculate_portfolio_health_score and for the
\* score of get_portfolio_summary
C15_HealthScoreBounds ==
    /\ fn.op = "calculate_portfolio_health_score" =>
          /\ \A s \in DOMAIN fn.out.scores : InScore(fn.out.scores[s], 25)
          /\ InScore(fn.out.total_score, 100)
    /\ fn.op = "get_portfolio_summary" =>
          /\ \A s \in DOMAIN fn.out.scores : InScore(RInt(fn.out.scores[s]), 25)
          /\ InScore(RInt(fn.out.health_score), 100)

\* what run_monte_carlo reports of the trials
Reported(out) ==
    <<out.success_rate, out.median_final_value, out.worst_case_10th_percentile,
      out.best_case_90th_percentile>>

\* C16: two runs of run_monte_carlo, each after the generator was given the
\* same seed, with the same portfolio value, withdrawal, years and number of
\* trials, report the same success rate, median and 10th and 90th
\* percentiles, whatever else drew from the generator in between
C16_MonteCarloRepeatable ==
    (/\ fn.op = "run_monte_carlo"
     /\ fn.before # None
     /\ fn.seed # None
     /\ fn.before[1].seed = fn.seed
     /\ fn.before[1].args = fn.args)
    => Reported(fn.out) = Reported(fn.before[1].out)

\* C17: of two runs of run_monte_carlo with the same portfolio value, years,
\* number of trials and drawn returns, the one with the larger withdrawal has
\* no higher success rate: each trial that survives the larger withdrawal
\* survives the smaller
C17_MonteCarloMonotone ==
    fn.op = "run_monte_carlo twice" =>
        /\ RLe(fn.more.out.success_rate, fn.less.out.success_rate)
        /\ \A sim \in 1 .. fn.simulations :
              fn.more.out.all_results[sim].survived =>
                  fn.less.out.all_results[sim].survived

\* the larger withdrawal ruins a trial that survives the smaller one, and
\* another trial survives both
C17_LargerWithdrawalRuins ==
    /\ fn.op = "run_monte_carlo twice"
    /\ RLt(RInt(0), fn.more.out.success_rate)
    /\ RLt(fn.more.out.success_rate, fn.less.out.success_rate)

\* the call's input is malformed: years below 0, no trial, or a reference
\* value that is not positive
Malformed ==
    \/ fn.op = "calculate_with_guardrails" /\ fn.initial_portfolio <= 0
    \/ fn.op = "run_sustainability_projection" /\ fn.years < 0
    \/ fn.op = "run_monte_carlo" /\ (fn.years < 0 \/ fn.simulations <= 0)

\* C18: a call of the planner with malformed input is refused with a
\* validation error before anything is computed, and no call raises an
\* arithmetic error
C18_MalformedInputRefused ==
    fn.op \in {"calculate_with_guardrails", "run_sustainability_projection",
                "run_monte_carlo"} =>
        /\ Malformed => fn.out.raised = "ValidationError"
        /\ fn.out.raised # "ZeroDivisionError"

\* C19: the tax owed is never negative, for capital gains and for dividends;
\* the net gain is the gross gain less the tax owed; a gross gain <= 0 has
\* no tax, rate 0 and its absolute value as tax_loss
C19_TaxNeverNegative ==
    /\ fn.op = "calculate_capital_gains_tax" =>
          /\ RLe(RInt(0), fn.out.tax_owed)
          /\ fn.out.net_gain = RSub(fn.out.gross_gain, fn.out.tax_owed)
          /\ RLe(fn.out.gross_gain, RInt(0)) =>
                /\ fn.out.tax_owed = RInt(0)
                /\ fn.out.tax_rate = RInt(0)
                /\ fn.out.tax_loss = RAbs(fn.out.gross_gain)
    /\ fn.op = "calculate_dividend_tax" => RLe(RInt(0), fn.out.tax_owed)

\* the holdings of a valuation: the entries of its allocation but the cash
HoldingsOf(out) == SelectSeq(out.allocation, LAMBDA a : a.symbol # "CASH")

\* the holding a has more than 60% of the total value of the valuation
Over60(a, out) ==
    out.portfolio_value > 0 /\ a.value * 100 > CONCENTRATION_PERCENT * out.portfolio_value

\* C20: a valuation has a concentration alert exactly when a holding other
\* than the cash has more than 60% of the total value, cash included; the
\* alert names the largest holding, with target_percent 60 and
\* suggested_sell_amount total_value * (current_percent - 60) / 100
C20_ConcentrationAlert ==
    fn.op \in {"_build_local_context", "chat", "build_local_portfolio_context"} =>
        LET out == fn.out
            hs == HoldingsOf(out)
            alert == out.concentration_alert
        IN  /\ alert # None <=> \E k \in 1 .. Len(hs) : Over60(hs[k], out)
            /\ alert # None =>
                  \E k \in 1 .. Len(hs) :
                      /\ hs[k].symbol = alert[1].symbol
                      /\ \A j \in 1 .. Len(hs) : hs[j].value <= hs[k].value
                      /\ alert[1].current_percent =
                            Rat(hs[k].value * 100, out.portfolio_value)
                      /\ alert[1].target_percent = 60
                      /\ alert[1].suggested_sell_amount =
                            Rat(out.portfolio_value * (hs[k].value * 100
                                    - 60 * out.portfolio_value),
                                out.portfolio_value * 100)

\* the place of the event e in the list events
PlaceOf(e, events) == CHOOSE k \in 1 .. Len(events) : events[k] = e

\* C21: detect_all_events returns its alerts ordered by priority, critical
\* before high before medium before low, and alerts of one priority keep the
\* order in which the detectors produced them
C21_EventsSortedStable ==
    fn.op = "detect_all_events" =>
        /\ Len(fn.out) = Len(fn.produced)
        /\ \A k \in 1 .. Len(fn.produced) : \E i \in 1 .. Len(fn.out) : fn.out[i] = fn.produced[k]
        /\ \A i, j \in 1 .. Len(fn.out) :
              i < j =>
                /\ priority_order(fn.out[i].priority) <= priority_order(fn.out[j].priority)
                /\ fn.out[i].priority = fn.out[j].priority =>
                      PlaceOf(fn.out[i], fn.produced) < PlaceOf(fn.out[j], fn.produced)

\* a call whose detectors produced a medium alert before a high one, and
\* several alerts of one priority
C21_EventsReordered ==
    /\ fn.op = "detect_all_events"
    /\ fn.out # fn.produced
    /\ \E i, j \in 1 .. Len(fn.out) : i < j /\ fn.out[i].priority = fn.out[j].priority

\* the lot of 10 units bought at 150 and priced at 270
TheLot == fn.op = "lot" /\ fn.quantity = 10 /\ fn.purchase_price = 150 /\ fn.price = 270

\* C22: a lot of 10 units bought at 150 and priced at 270 is valued with a
\* profit of 1200, 80%; selling the 10 units at 270 realizes 1200 and removes
\* the position; at the flat 5% the tax of the sale is 60 and the net gain
\* 1140, whatever the holding period
C22_LotValuedSoldTaxed ==
    TheLot =>
        /\ fn.pl.pl_amount = 1200 /\ fn.pl.pl_percent = RInt(80)
        /\ fn.stage \in {"sold", "taxed"} /\ fn.sold = 10 =>
              /\ fn.sale.success
              /\ fn.sale.realized_pl = RInt(1200)
              /\ fn.sale.positions = << >>
        /\ fn.stage = "taxed" /\ fn.sold = 10 /\ fn.jurisdiction = "kenya" =>
              /\ fn.tax.tax_owed = RInt(60)
              /\ fn.tax.net_gain = RInt(1140)

\* the 10 units were sold and taxed at the flat 5% after a year of holding
C22_LotTaxedAfterAYear ==
    /\ TheLot /\ fn.stage = "taxed" /\ fn.sold = 10 /\ fn.jurisdiction = "kenya"
    /\ fn.tax.holding_period_days >= US_THRESHOLD_DAYS

\* C23: the projection has one record per year, in increasing order from
\* year 1, and stops at the first year whose end value is <= 0: no more than
\* years records, at most one record flagged depleted and that one the last,
\* depletion_year its year, success exactly when no record is depleted
C23_ProjectionStopsAtDepletion ==
    fn.op = "run_sustainability_projection" =>
        LET out == fn.out
            ps == out.projections
        IN  /\ \A k \in 1 .. Len(ps) : ps[k].year = k
            /\ fn.years >= 0 => Len(ps) <= fn.years
            /\ \A k \in 1 .. Len(ps) :
                  /\ ps[k].depleted <=> RLe(ps[k].portfolio_value, RInt(0))
                  /\ ps[k].depleted => k = Len(ps)
            /\ out.depletion_year # None <=> \E k \in 1 .. Len(ps) : ps[k].depleted
            /\ out.depletion_year # None => out.depletion_year[1] = ps[Len(ps)].year
            /\ out.success <=> \A k \in 1 .. Len(ps) : ~ps[k].depleted

\* a projection over two years that is depleted in the first
C23_DepletedBeforeTheEnd ==
    /\ fn.op = "run_sustainability_projection"
    /\ fn.years = MaxYears
    /\ fn.out.depletion_year = Some(1)
    /\ ~fn.out.success

\* the value of the portfolio after the k-th crash of the call
ShockedValue(k) == Rat(fn.portfolio_value * (100 + fn.given[k][2]), 100)

\* the results of a stress test are one per scenario, in the order given,
\* unsustainable when the shocked value is <= 0 or the withdrawal above 6%
\* of it, risky when above 5%, sustainable otherwise
StressClassified ==
    /\ Len(fn.out.scenarios) = Len(fn.given)
    /\ \A k \in 1 .. Len(fn.given) :
          LET r == fn.out.scenarios[k]
              shocked == fn.portfolio_value * (100 + fn.given[k][2])
              w == fn.annual_withdrawal * 100
          IN  /\ r.scenario = fn.given[k][1]
              /\ r.portfolio_after_crash = ShockedValue(k)
              /\ r.status =
                    IF shocked <= 0 THEN "Unsustainable"
                    ELSE IF w * 100 > 6 * shocked THEN "Unsustainable"
                    ELSE IF w * 100 > 5 * shocked THEN "Risky"
                    ELSE "Sustainable"

\* C24: the verdicts of a stress test are as classified, and the reduced
\* withdrawal suggested to a scenario that is not sustainable is 4% of the
\* shocked value, in whole units: the text of the action names it without
\* decimals
C24_StressClassifiedAmountRounded ==
    fn.op = "stress_test" =>
        /\ StressClassified
        /\ \A k \in 1 .. Len(fn.given) :
              LET r == fn.out.scenarios[k]
              IN  IF r.status = "Sustainable" THEN r.recommended_action = None
                  ELSE /\ r.recommended_action # None
                       /\ RLe(RAbs(RSub(RInt(r.recommended_action[1]),
                                        RMul(ShockedValue(k), Rat(4, 100)))),
                              Rat(1, 2))

\* C24 as stated: the verdicts are as classified and the suggested reduced
\* withdrawal is shocked_value * 4%
C24_StressClassifiedAmountExact ==
    fn.op = "stress_test" =>
        /\ StressClassified
        /\ \A k \in 1 .. Len(fn.given) :
              LET r == fn.out.scenarios[k]
              IN  r.recommended_action # None =>
                      RInt(r.recommended_action[1]) = RMul(ShockedValue(k), Rat(4, 100))

\* a stress test whose first scenario is risky at exactly 6% and whose
\* second is unsustainable, with an amount suggested
C24_RiskyThenUnsustainable ==
    /\ fn.op = "stress_test"
    /\ Len(fn.given) = 2
    /\ fn.out.scenarios[1].status = "Risky"
    /\ fn.out.scenarios[1].withdrawal_rate_after_crash = RInt(6)
    /\ fn.out.scenarios[2].status = "Unsustainable"
    /\ fn.out.scenarios[2].recommended_action # None

\* C25: in the jurisdiction with a dividend allowance only the part of the
\* dividend above the allowance is taxed: tax_owed is the rate times
\* max(0, dividend - allowance), so it has no jump at the allowance
C25_DividendAllowanceDeducted ==
    fn.op = "calculate_dividend_tax" /\ fn.jurisdiction = "uk" =>
        fn.out.tax_owed =
            RMul(Rat(875, 10000),
                 RInt(IF fn.dividend_amount > UK_DIVIDEND_ALLOWANCE
                      THEN fn.dividend_amount - UK_DIVIDEND_ALLOWANCE ELSE 0))

\* C26: the stored total_quantity of a position is what was bought minus
\* what was sold, and total_invested counts no unit already sold: every
\* successful buy of q units at price p, whatever sales came before it,
\* leaves the row with q units and q * p of total_invested more than it had
C26_QuantityConserved ==
    \A i \in DOMAIN reqs :
        LET r == reqs[i]
            had == SelectFrom(r.before.positions, r.symbol)
            has == SelectFrom(positions, r.symbol)
        IN  (r.op = "buy" /\ Ok(i)) =>
            /\ has.total_quantity = had.total_quantity + r.quantity
            /\ has.total_invested = RAdd(had.total_invested, RInt(r.quantity * r.price))

\* C27: the cash balance is never negative, whatever deposits, buys, sales
\* and withdrawals the endpoints accept, one request at a time
C27_CashNeverNegative == cash_balance >= 0

\* C28: the total_pl of a valuation is the sum over its holdings of
\* current_value - total_cost_basis, and total_pl_percent is that sum
\* relative to the total cost basis: the cash is no profit
C28_CashIsNoProfit ==
    \A i \in Insts :
        pm[i].call.op = "calculate_total_portfolio" =>
            LET result == pm[i].result
                held == DOMAIN result.holdings
                pl == SumOver([x \in held |-> result.holdings[x].current_value
                                             - result.holdings[x].total_cost_basis], held)
            IN  /\ result.total_pl = pl
                /\ result.total_cost_basis > 0 =>
                      result.total_pl_percent = Rat(pl * 100, result.total_cost_basis)

\* C29: the summary of a cache entry was computed from the articles of that
\* entry, and so was a summary served from the cache, whatever the
\* interleaving of the requests for a symbol
C29_SummaryOfItsEntry ==
    /\ \A key \in DOMAIN news_cache :
          news_cache[key].summary # None =>
              news_cache[key].summary[1] = SummaryOf(news_cache[key].data)
    /\ \A t \in Threads :
          (thr[t].op = "fetch_smart_data" /\ thr[t].pc = "done" /\ thr[t].summary # None)
          => thr[t].summary[1] = SummaryOf(thr[t].result[1])

\* C30: in the risk metrics of a valuation with a positive total value,
\* equity_percent is the share of the holdings that are not cash, and with
\* cash_percent it makes 100, up to the rounding of each to one decimal; the
\* percentages of the allocation, cash included, sum to 100
C30_EquityAndCashPartition ==
    (fn.op = "_build_local_context" /\ fn.out.portfolio_value > 0) =>
        LET out == fn.out
            hs == HoldingsOf(out)
            held == SumSeq([k \in 1 .. Len(hs) |-> hs[k].value])
        IN  /\ out.risk_metrics.equity_percent
                  = Round1(Rat(held * 100, out.portfolio_value))
            /\ RLe(RAbs(RSub(RAdd(out.risk_metrics.equity_percent,
                                  out.risk_metrics.cash_percent), RInt(100))),
                   Rat(1, 10))
            /\ RSumOver([k \in 1 .. Len(out.allocation) |-> out.allocation[k].percent],
                        1 .. Len(out.allocation)) = RInt(100)
====
